---- MODULE Spec2Model ----
(***************************************************************************)
(* The schematic editor (EditorCore) of gdsfactory/schelectron as a state  *)
(* machine: the schematic's entities, the change log with its cursor, the  *)
(* selection, the clipboard, the drawing canvas and the UI mode handlers.  *)
(* One action per event handler of SchEditor and of the mode handlers.     *)
(*                                                                         *)
(* Coordinates are integers (pixels).  Entity objects live in `entities`,  *)
(* indexed by an object identity; the schematic, the selection and the     *)
(* change log refer to entities by that identity, as the code refers to    *)
(* them by reference.                                                      *)
(***************************************************************************)
EXTENDS Integers, Sequences, FiniteSets, TLC

\* ------------------------------------------------------------------------
\* Bounds of the model
\* ------------------------------------------------------------------------
MaxEnt == 3          \* entity objects ever created
MaxLog == 3          \* entries in the change log
CoordMax == 30       \* |x|, |y| of every location kept in the model
MaxNameLen == 3      \* tokens in a label text
MaxSvg == 1          \* elements drawn into schematic.otherSvgElements
MaxEvents == 6       \* events handled in a run

\* ------------------------------------------------------------------------
\* Program constants
\* ------------------------------------------------------------------------
GridSize == 10       \* the 10x10 placement grid
PasteOffset == 20    \* pasteClipboard: `const offset = 20`

Null == [kind |-> "Null"]

\* ------------------------------------------------------------------------
\* Geometry: points, grid snapping, orientations
\* ------------------------------------------------------------------------
Pt(x, y) == [x |-> x, y |-> y]

\* A rounding that always moves up to the next grid line
RoundUpPast(num, den) == ((num \div (GridSize * den)) + 1) * GridSize

\* Math.round(v / 10) * 10 for the rational v = num / den (den > 0):
\* halves round towards +infinity.
RoundToGrid(num, den) ==
  ((2 * num + GridSize * den) \div (2 * GridSize * den)) * GridSize

nearestOnGrid(p) == Pt(RoundToGrid(p.x, 1), RoundToGrid(p.y, 1))

OnGrid(p) == p.x % GridSize = 0 /\ p.y % GridSize = 0

\* An orientation is the 2x2 matrix <<a, b, c, d>> of the readme's table.
OrientationDefault == <<1, 0, 0, 1>>
Orientations ==
  { <<1, 0, 0, 1>>, <<0, 1, -1, 0>>, <<-1, 0, 0, -1>>, <<0, -1, 1, 0>>,
    <<1, 0, 0, -1>>, <<0, 1, 1, 0>>, <<-1, 0, 0, 1>>, <<0, -1, -1, 0>> }

\* Matrix product m * n, with <<a, b, c, d>> read as rows (a c) and (b d)
\* of the SVG matrix(a b c d e f).
MatMul(m, n) ==
  << m[1] * n[1] + m[3] * n[2], m[2] * n[1] + m[4] * n[2],
     m[1] * n[3] + m[3] * n[4], m[2] * n[3] + m[4] * n[4] >>

\* A matrix that is none of the 8 orientations
RotSkew == <<0, 1, -1, 1>>
Rot90 == <<0, 1, -1, 0>>
ReflHoriz == <<-1, 0, 0, 1>>
ReflVert == <<1, 0, 0, -1>>

\* Instance.rotate / SchPort.rotate
rotate(o) == MatMul(Rot90, o)
\* Instance.flip / SchPort.flip
flip(o, dir) == IF dir = "Horiz" THEN MatMul(ReflHoriz, o) ELSE MatMul(ReflVert, o)

Directions == {"Horiz", "Vert"}

\* ------------------------------------------------------------------------
\* Sequence helpers
\* ------------------------------------------------------------------------
RECURSIVE SetToSeq(_)
SetToSeq(S) ==
  IF S = {} THEN <<>>
  ELSE LET m == CHOOSE x \in S : \A y \in S : x <= y
       IN <<m>> \o SetToSeq(S \ {m})

RECURSIVE SumSeq(_)
SumSeq(s) == IF s = <<>> THEN 0 ELSE Head(s) + SumSeq(Tail(s))

\* ------------------------------------------------------------------------
\* The kind catalogs
\* ------------------------------------------------------------------------
\* elementLib: kind |-> defaultNamePrefix
Elements == {"Nmos", "Res"}
defaultNamePrefix(kind) == IF kind = "Nmos" THEN <<"n">> ELSE <<"r">>
\* portLib: kind |-> defaultName
PortElements == {"Input", "Output"}
defaultName(kind) == IF kind = "Input" THEN <<"inp">> ELSE <<"out">>

NumStr(n) == CASE n = 0 -> "0" [] n = 1 -> "1" [] n = 2 -> "2" [] n = 3 -> "3"
               [] n = 4 -> "4" [] OTHER -> "5"

\* ------------------------------------------------------------------------
\* Entities
\* ------------------------------------------------------------------------
\* Instance.create / SchPort.create: a placeable entity object
NewPlaceable(ek, kind, name, loc, orientation) ==
  [entityKind |-> ek, kind |-> kind, name |-> name, loc |-> loc,
   orientation |-> orientation, points |-> <<>>]

\* Wire.create(points): `return new Wire(points)`; the points are taken as given
WireCreate(points) ==
  [entityKind |-> "Wire", kind |-> "Wire", name |-> <<>>, loc |-> Pt(0, 0),
   orientation |-> OrientationDefault, points |-> points]

IsPlaceable(e) == e.entityKind \in {"Instance", "SchPort"}
IsWire(e) == e.entityKind = "Wire"

\* Wire.getCentroid: the average of the wire's points
getCentroid(points) ==
  Pt(SumSeq([i \in 1..Len(points) |-> points[i].x]) \div Len(points),
     SumSeq([i \in 1..Len(points) |-> points[i].y]) \div Len(points))

\* Wire.rotateAround: (x, y) -> (cx + dy, cy - dx)
rotateAround(points, center) ==
  [i \in 1..Len(points) |->
     Pt(center.x + (points[i].y - center.y), center.y - (points[i].x - center.x))]

\* Wire.flipAround
flipAround(points, center, horizontal) ==
  [i \in 1..Len(points) |->
     IF horizontal THEN Pt(center.x - (points[i].x - center.x), points[i].y)
     ELSE Pt(points[i].x, center.y - (points[i].y - center.y))]

\* Entity.place(): {loc, orientation}
place(e) == [loc |-> e.loc, orientation |-> e.orientation]

\* ------------------------------------------------------------------------
\* Changes and the change log
\* ------------------------------------------------------------------------
\* The inverse of a change, as ChangeLog.undo synthesizes it
RECURSIVE Inverse(_)
Inverse(c) ==
  CASE c.kind = "Add" -> [kind |-> "Remove", entity |-> c.entity]
    [] c.kind = "Remove" -> [kind |-> "Add", entity |-> c.entity]
    [] c.kind = "Move" ->
         [kind |-> "Move", entity |-> c.entity, from |-> c.to, to |-> c.from]
    [] c.kind = "MoveWire" ->
         [kind |-> "MoveWire", wire |-> c.wire, from |-> c.to, to |-> c.from]
    [] c.kind = "EditText" ->
         [kind |-> "EditText", label |-> c.label, from |-> c.to, to |-> c.from]
    [] c.kind = "Batch" ->
         [kind |-> "Batch",
          changes |-> [i \in 1..Len(c.changes) |->
                         Inverse(c.changes[Len(c.changes) + 1 - i])]]
    [] OTHER -> Null

\* ChangeLog.add: drop the entries after the cursor, append, advance
ChangeLogAdd(cl, change) ==
  [log |-> Append(SubSeq(cl.log, 1, cl.cursor), change), cursor |-> cl.cursor + 1]

\* ChangeLog.undo: the inverse of the entry before the cursor, or null
ChangeLogUndo(cl) ==
  IF cl.cursor = 0 THEN [cl |-> cl, change |-> Null]
  ELSE [cl |-> [cl EXCEPT !.cursor = @ - 1], change |-> Inverse(cl.log[cl.cursor])]

\* ChangeLog.redo: the entry at the cursor, or null
ChangeLogRedo(cl) ==
  IF cl.cursor = Len(cl.log) THEN [cl |-> cl, change |-> Null]
  ELSE [cl |-> [cl EXCEPT !.cursor = @ + 1], change |-> cl.log[cl.cursor + 1]]

\* SchEditor.applyChange on the state st = [entities, members, drawn, threw]
RECURSIVE applyChange(_, _)
\* A Batch that stops after its first sub-change
applyChangeBatchFirstOnly(st, changes) ==
  IF changes = <<>> THEN st ELSE applyChange(st, changes[1])

applyChangeBatch(st, changes) ==
  LET RECURSIVE go(_, _)
      go(s, i) == IF i > Len(changes) THEN s
                  ELSE go(applyChange(s, changes[i]), i + 1)
  IN go(st, 1)

applyChange(st, change) ==
  CASE change.kind = "Add" ->
         [st EXCEPT !.members = @ \cup {change.entity},
                    !.drawn = @ \cup {change.entity}]
    [] change.kind = "Remove" ->
         [st EXCEPT !.members = @ \ {change.entity},
                    !.drawn = @ \ {change.entity}]
    [] change.kind = "Move" ->
         [st EXCEPT !.entities[change.entity].loc = change.to.loc,
                    !.entities[change.entity].orientation = change.to.orientation,
                    !.drawn = @ \cup {change.entity}]
    [] change.kind = "EditText" ->
         [st EXCEPT !.entities[change.label].name = change.to]
    [] change.kind = "MoveWire" ->
         [st EXCEPT !.entities[change.wire].points = change.to,
                    !.drawn = @ \cup {change.wire}]
    [] change.kind = "Batch" -> applyChangeBatch(st, change.changes)
    [] OTHER -> [st EXCEPT !.threw = TRUE]

\* ------------------------------------------------------------------------
\* The host's document
\* ------------------------------------------------------------------------
\* new SchematicDocument: no content request is pending; the channels to and
\* from the webview are empty; the webview shows version 0 of the content
NewDocument ==
  [documentData |-> 0, pendingContentResolver |-> 0, promises |-> <<>>,
   toWebview |-> <<>>, toHost |-> <<>>, content |-> 0, arrived |-> {}]

\* The PythonBridge once doStart has spawned the child process and set up the
\* line reader: no command is waiting, both pipes are empty
StartedBridge ==
  [process |-> 1, children |-> << "running" >>, errored |-> {},
   responseQueue |-> <<>>, promises |-> <<>>,
   stdin |-> <<>>, stdout |-> <<>>, noise |-> 0,
   event |-> [kind |-> "start", child |-> 1]]

\* ------------------------------------------------------------------------
\* The editor's state
\* ------------------------------------------------------------------------
VARIABLES
  entities,             \* the entity objects ever added: identity |-> fields
  schematic,            \* editor.schematic: [members, otherSvgElements, born]; born is
                        \* the number of entity objects that existed when this
                        \* Schematic object was constructed
  changeLog,            \* uiState.changeLog: [log, cursor]
  modeHandler,          \* uiState.modeHandler, a record tagged by its mode
  selected_entities,    \* uiState.selected_entities
  selected_entity,      \* uiState.selected_entity (0: null)
  groupTransformCenter, \* uiState.groupTransformCenter
  lastData,             \* uiState.lastInstanceData and uiState.lastPortData
  clipboard,            \* SchEditor.clipboard
  drawn,                \* the entities that have a drawing on the canvas
  threw,                \* a handler ended in an uncaught exception
  lastStep,             \* what the last handler did: messages sent, failer called
  logPre,               \* per log entry: the affected entities before the edit began
  events,               \* the number of events handled since startup
  highlighted,          \* the entities drawn highlighted (Entity.highlighted)
  pdkElementRegistry,   \* the module's Map of PDK elements: registry key |-> entry
  customElementRegistry, \* the module's Map of custom symbol elements: path |-> Element
  doc,                  \* the host's SchematicDocument and its message channels
  bridge                \* the host's PythonBridge, its child process and its pipes

vars == << entities, schematic, changeLog, modeHandler, selected_entities,
           selected_entity, groupTransformCenter, lastData, clipboard, drawn,
           threw, lastStep, logPre, events, highlighted,
           pdkElementRegistry, customElementRegistry, doc, bridge >>

\* The identity of the entity a placement mode holds before it is committed
Pending == 0

Idle == [mode |-> "Idle"]

MousePts == { Pt(0, 0), Pt(14, -4) }

members == schematic.members
Instances == { id \in members : entities[id].entityKind = "Instance" }
\* Schematic.num_instances
num_instances == Cardinality(Instances)

\* What a handler did besides changing the state: the Change messages it sent
\* to the platform, whether it called failer, whether it handled a
\* RequestContent message, the bodies of the SaveFile messages it sent,
\* whether it handled an Escape key and the createPdkElement call it made
Step(sent, failed) ==
  [sent |-> sent, failed |-> failed, requested |-> FALSE, saved |-> <<>>,
   escape |-> FALSE, pdk |-> Null, custom |-> Null]

\* One more event is counted; runs of more than MaxEvents events are not explored
Counted == events < MaxEvents /\ events' = events + 1

\* One more event is handled by a handler of the editor that does not call
\* createPdkElement or createCustomElement
Handled == Counted /\ UNCHANGED << pdkElementRegistry, customElementRegistry, doc, bridge >>

Init ==
  /\ entities = <<>>
  /\ schematic = [members |-> {}, otherSvgElements |-> 0, born |-> 0]
  /\ changeLog = [log |-> <<>>, cursor |-> 0]
  /\ modeHandler = Idle
  /\ selected_entities = {}
  /\ selected_entity = 0
  /\ highlighted = {}
  /\ groupTransformCenter = Null
  /\ lastData = [instance |-> [kind |-> "Nmos", orientation |-> OrientationDefault],
                 port |-> [kind |-> "Input", orientation |-> OrientationDefault]]
  /\ clipboard = <<>>
  /\ drawn = {}
  /\ threw = FALSE
  /\ lastStep = Step(0, FALSE)
  /\ logPre = <<>>
  /\ events = 0
  /\ pdkElementRegistry = <<>>
  /\ customElementRegistry = <<>>
  /\ doc = NewDocument
  /\ bridge = StartedBridge

\* ------------------------------------------------------------------------
\* Logging
\* ------------------------------------------------------------------------
\* A logChange that inserts at the cursor and keeps the entries after it
logChangeKeepingTail(p, change) ==
  [cl |-> [log |-> SubSeq(p.cl.log, 1, p.cl.cursor) \o <<change>>
                   \o SubSeq(p.cl.log, p.cl.cursor + 1, Len(p.cl.log)),
           cursor |-> p.cl.cursor + 1],
   sent |-> p.sent + 1]

\* SchEditor.logChange on p = [cl, sent]: changeLog.add, then one Change message
logChange(p, change) ==
  [cl |-> ChangeLogAdd(p.cl, change), sent |-> p.sent + 1]

\* A handler that logs each of its changes twice
RECURSIVE logChangesTwice(_, _)
logChangesTwice(p, changes) ==
  IF changes = <<>> THEN p
  ELSE logChangesTwice(logChange(logChange(p, Head(changes)), Head(changes)),
                       Tail(changes))

RECURSIVE logChanges(_, _)
logChanges(p, changes) ==
  IF changes = <<>> THEN p
  ELSE logChanges(logChange(p, Head(changes)), Tail(changes))

\* What the entities `ids` look like now, kept with a log entry
PreOf(ids) ==
  [ids |-> ids, members |-> ids \cap members,
   fields |-> [id \in ids \cap DOMAIN entities |-> entities[id]]]

\* The handler logs `changes` (in this order); pres[i] goes with changes[i]
Logs(changes, pres) ==
  /\ changeLog.cursor + Len(changes) <= MaxLog
  /\ Handled
  /\ LET r == logChanges([cl |-> changeLog, sent |-> 0], changes)
     IN /\ changeLog' = r.cl
        /\ lastStep' = Step(r.sent, FALSE)
  /\ logPre' = IF changes = <<>> THEN logPre
               ELSE SubSeq(logPre, 1, changeLog.cursor) \o pres

\* The handler logs nothing and sends `sent` Change messages
LogsNothing(sent) ==
  /\ lastStep' = Step(sent, FALSE)
  /\ Handled
  /\ UNCHANGED << changeLog, logPre >>

\* The handler of an Escape key: nothing is logged, no message is sent
EscapeKey ==
  /\ lastStep' = [Step(0, FALSE) EXCEPT !.escape = TRUE]
  /\ Handled
  /\ UNCHANGED << changeLog, logPre >>

\* SchEditor.select: deselectAll, then the entity is selected and highlighted
Select(id) ==
  /\ selected_entity' = id
  /\ selected_entities' = {id}
  /\ highlighted' = (highlighted \ selected_entities) \cup {id}
  /\ groupTransformCenter' = Null

\* SchEditor.deselect: selected_entity alone is unhighlighted
Deselect ==
  /\ selected_entity' = 0
  /\ selected_entities' = {}
  /\ highlighted' = highlighted \ {selected_entity}
  /\ groupTransformCenter' = Null

\* SchEditor.deselectAll: every selected entity is unhighlighted
DeselectAll ==
  /\ selected_entity' = 0
  /\ selected_entities' = {}
  /\ highlighted' = highlighted \ selected_entities
  /\ groupTransformCenter' = Null

KeepSelection ==
  UNCHANGED << selected_entities, selected_entity, highlighted, groupTransformCenter >>

\* ------------------------------------------------------------------------
\* Messages from the platform
\* ------------------------------------------------------------------------
FileBodies == {"bad", "f1"}

\* SvgImporter.import: the schematic data of a file body, or an exception
SvgImporterImport(body) ==
  IF body = "f1"
  THEN [ok |-> TRUE,
        instances |-> << NewPlaceable("Instance", "Nmos", <<"n", "0">>, Pt(0, 0),
                                      OrientationDefault) >>,
        wires |-> << << Pt(0, 0), Pt(10, 0) >> >>]
  ELSE [ok |-> FALSE]

\* handleMessage, case LoadFile: canvas.clear(), import, Schematic.fromData,
\* loadSchematic; any exception ends in failer
LoadFile(body) ==
  LET r == SvgImporterImport(body) IN
  IF r.ok
  THEN LET new == r.instances \o [i \in 1..Len(r.wires) |-> WireCreate(r.wires[i])]
           ids == (Len(entities) + 1)..(Len(entities) + Len(new))
       IN /\ Len(entities) + Len(new) <= MaxEnt
          /\ entities' = entities \o new
          /\ schematic' = [members |-> ids, otherSvgElements |-> 0,
                            born |-> Len(entities)]
          /\ drawn' = ids
          /\ LogsNothing(0)
          /\ KeepSelection
          /\ UNCHANGED << modeHandler, lastData, clipboard, threw >>
  ELSE /\ drawn' = {}
       /\ lastStep' = Step(0, TRUE)
       /\ Handled
       /\ KeepSelection
       /\ UNCHANGED << entities, schematic, changeLog, logPre, modeHandler,
                       lastData, clipboard, threw >>

\* Schematic.toData: the data of the instances, ports and wires, in order
toData(st) ==
  LET ofKind(ek) == SetToSeq({ id \in st.members : st.entities[id].entityKind = ek })
      data(ek) == [i \in 1..Len(ofKind(ek)) |-> st.entities[ofKind(ek)[i]]]
  IN [instances |-> data("Instance"), ports |-> data("SchPort"),
      wires |-> [i \in 1..Len(data("Wire")) |-> data("Wire")[i].points],
      otherSvgElements |-> st.otherSvgElements]

\* The `d` attribute of a wire's path: M x y L x y ...
PathD(points) ==
  [i \in 1..Len(points) |->
     [cmd |-> IF i = 1 THEN "M" ELSE "L", x |-> points[i].x, y |-> points[i].y]]

\* The group of an instance or port: class, transform="matrix(a b c d x y)",
\* the symbol group's class suffix and the name text
PlaceableGroup(class, e) ==
  [class |-> class,
   matrix |-> << e.orientation[1], e.orientation[2], e.orientation[3],
                 e.orientation[4], e.loc.x, e.loc.y >>,
   symbol |-> e.kind, name |-> e.name]

\* SvgExporter.export: the text of a schematic's data, element by element
SvgExporterExport(data) ==
  [ok |-> TRUE,
   text |-> [instances |-> [i \in 1..Len(data.instances) |->
                              PlaceableGroup("hdl21-instance", data.instances[i])],
             ports |-> [i \in 1..Len(data.ports) |->
                          PlaceableGroup("hdl21-port", data.ports[i])],
             wires |-> [i \in 1..Len(data.wires) |->
                          [class |-> "hdl21-wire", d |-> PathD(data.wires[i])]],
             other |-> data.otherSvgElements]]

\* Consecutive points differ in exactly one coordinate
Manhattan(points) ==
  \A i \in 1..(Len(points) - 1) :
     (points[i].x = points[i + 1].x) # (points[i].y = points[i + 1].y)

\* The importer's reading of one instance or port group: the matrix decodes to
\* a location and one of the 8 orientations, the symbol class suffix resolves
\* against the catalog; anything else is an error
ParsePlaceable(ek, catalog, g) ==
  LET o == << g.matrix[1], g.matrix[2], g.matrix[3], g.matrix[4] >>
  IN IF o \in Orientations /\ g.symbol \in catalog
     THEN [ok |-> TRUE,
           data |-> NewPlaceable(ek, g.symbol, g.name, Pt(g.matrix[5], g.matrix[6]), o)]
     ELSE [ok |-> FALSE]

\* The importer's reading of a wire path: the M/L commands as points; a pair of
\* consecutive points that is not axis-aligned is an error
ParseWire(w) ==
  LET points == [i \in 1..Len(w.d) |-> Pt(w.d[i].x, w.d[i].y)]
  IN IF Manhattan(points) THEN [ok |-> TRUE, data |-> points] ELSE [ok |-> FALSE]

\* SvgImporter.import on a text the exporter wrote: the schematic data, or an
\* error when any element fails to parse
SvgImporterParse(text) ==
  LET insts == [i \in 1..Len(text.instances) |->
                  ParsePlaceable("Instance", Elements, text.instances[i])]
      ports == [i \in 1..Len(text.ports) |->
                  ParsePlaceable("SchPort", PortElements, text.ports[i])]
      wires == [i \in 1..Len(text.wires) |-> ParseWire(text.wires[i])]
  IN IF /\ \A i \in 1..Len(insts) : insts[i].ok
        /\ \A i \in 1..Len(ports) : ports[i].ok
        /\ \A i \in 1..Len(wires) : wires[i].ok
     THEN [ok |-> TRUE,
           data |-> [instances |-> [i \in 1..Len(insts) |-> insts[i].data],
                     ports |-> [i \in 1..Len(ports) |-> ports[i].data],
                     wires |-> [i \in 1..Len(wires) |-> wires[i].data],
                     otherSvgElements |-> text.other]]
     ELSE [ok |-> FALSE]

\* A sendSaveFile that sends nothing
sendSaveFileSilent(st) == <<>>

\* SchEditor.sendSaveFile: the SaveFile messages sent, none when the exporter
\* throws
sendSaveFile(st) ==
  LET r == SvgExporterExport(toData(st))
  IN IF r.ok THEN << r.text >> ELSE <<>>

\* handleMessage, case RequestContent: sendSaveFile
RequestContent ==
  /\ lastStep' = [Step(0, FALSE) EXCEPT
                    !.requested = TRUE,
                    !.saved = sendSaveFile([members |-> members, entities |-> entities,
                                            otherSvgElements |-> schematic.otherSvgElements])]
  /\ Handled
  /\ KeepSelection
  /\ UNCHANGED << entities, schematic, changeLog, logPre, modeHandler, lastData,
                  clipboard, drawn, threw >>

\* ------------------------------------------------------------------------
\* Placing an instance: InstanceReady
\* ------------------------------------------------------------------------
\* Idle.startAddInstance -> InstanceReady.start
StartAddInstance(m) ==
  /\ modeHandler.mode = "Idle"
  /\ LET inst == NewPlaceable("Instance", lastData.instance.kind,
                   defaultNamePrefix(lastData.instance.kind) \o <<NumStr(num_instances)>>,
                   nearestOnGrid(m), lastData.instance.orientation)
     IN modeHandler' = [mode |-> "InstanceReady", instance |-> inst]
  /\ Select(Pending)
  /\ drawn' = drawn \cup {Pending}
  /\ LogsNothing(0)
  /\ UNCHANGED << entities, schematic, lastData, clipboard, threw >>

\* InstanceReady.handleMouseMove -> updateLoc
InstanceReadyMouseMove(m) ==
  /\ modeHandler.mode = "InstanceReady"
  /\ modeHandler' = [modeHandler EXCEPT !.instance.loc = nearestOnGrid(m)]
  /\ drawn' = drawn \cup {Pending}
  /\ LogsNothing(0)
  /\ KeepSelection
  /\ UNCHANGED << entities, schematic, lastData, clipboard, threw >>

\* InstanceReady.rotate / flip; lastInstanceData is the instance's own data object
InstanceReadyRotate ==
  /\ modeHandler.mode = "InstanceReady"
  /\ LET o == rotate(modeHandler.instance.orientation)
     IN /\ modeHandler' = [modeHandler EXCEPT !.instance.orientation = o]
        /\ lastData' = [lastData EXCEPT !.instance.orientation = o]
  /\ LogsNothing(0)
  /\ KeepSelection
  /\ UNCHANGED << entities, schematic, clipboard, drawn, threw >>

InstanceReadyFlip(dir) ==
  /\ modeHandler.mode = "InstanceReady"
  /\ LET o == flip(modeHandler.instance.orientation, dir)
     IN /\ modeHandler' = [modeHandler EXCEPT !.instance.orientation = o]
        /\ lastData' = [lastData EXCEPT !.instance.orientation = o]
  /\ LogsNothing(0)
  /\ KeepSelection
  /\ UNCHANGED << entities, schematic, clipboard, drawn, threw >>

\* InstanceReady.changeInstanceKind
ChangeInstanceKind(kind) ==
  /\ modeHandler.mode = "InstanceReady"
  /\ modeHandler' = [modeHandler EXCEPT !.instance.kind = kind,
                                        !.instance.name = defaultNamePrefix(kind)]
  /\ lastData' = [lastData EXCEPT !.instance.kind = kind]
  /\ drawn' = drawn \cup {Pending}
  /\ LogsNothing(0)
  /\ KeepSelection
  /\ UNCHANGED << entities, schematic, clipboard, threw >>

\* InstanceReady.commit
InstanceReadyCommit ==
  /\ modeHandler.mode = "InstanceReady"
  /\ Len(entities) < MaxEnt
  /\ LET id == Len(entities) + 1 IN
       /\ entities' = Append(entities, modeHandler.instance)
       /\ schematic' = [schematic EXCEPT !.members = @ \cup {id}]
       /\ drawn' = (drawn \ {Pending}) \cup {id}
       /\ Logs(<< [kind |-> "Add", entity |-> id] >>,
               << PreOf({id}) >>)
  /\ Deselect
  /\ modeHandler' = Idle
  /\ UNCHANGED << lastData, clipboard, threw >>

\* InstanceReady.abort
InstanceReadyAbort ==
  /\ modeHandler.mode = "InstanceReady"
  /\ Deselect
  /\ drawn' = drawn \ {Pending}
  /\ modeHandler' = Idle
  /\ EscapeKey
  /\ UNCHANGED << entities, schematic, lastData, clipboard, threw >>

\* ------------------------------------------------------------------------
\* Undo and redo
\* ------------------------------------------------------------------------
\* handleKey: the Cmd/Ctrl shortcuts are ignored in the Ready modes
CtrlKeysHandled == modeHandler.mode \notin {"InstanceReady", "PortReady", "EditPrelude"}

St == [entities |-> entities, members |-> members, drawn |-> drawn, threw |-> threw]

\* The part of the editor undo and redo work on: the change log and the schematic
Editor == [cl |-> changeLog, st |-> St]

\* An undo that applies whatever ChangeLog.undo returned, null included
undoUnchecked(e) ==
  LET r == ChangeLogUndo(e.cl)
  IN [cl |-> r.cl, st |-> applyChange(e.st, r.change)]

\* SchEditor.undo
undo(e) ==
  LET r == ChangeLogUndo(e.cl)
  IN [cl |-> r.cl,
      st |-> IF r.change.kind # "Null" THEN applyChange(e.st, r.change) ELSE e.st]

\* SchEditor.redo
redo(e) ==
  LET r == ChangeLogRedo(e.cl)
  IN [cl |-> r.cl,
      st |-> IF r.change.kind # "Null" THEN applyChange(e.st, r.change) ELSE e.st]

Becomes(e) ==
  /\ changeLog' = e.cl
  /\ entities' = e.st.entities
  /\ schematic' = [schematic EXCEPT !.members = e.st.members]
  /\ drawn' = e.st.drawn
  /\ threw' = e.st.threw

\* Cmd/Ctrl-Z
Undo ==
  /\ CtrlKeysHandled
  /\ Becomes(undo(Editor))
  /\ lastStep' = Step(0, FALSE)
  /\ Handled
  /\ KeepSelection
  /\ UNCHANGED << logPre, modeHandler, lastData, clipboard >>

\* Cmd/Ctrl-Shift-Z
Redo ==
  /\ CtrlKeysHandled
  /\ Becomes(redo(Editor))
  /\ lastStep' = Step(0, FALSE)
  /\ Handled
  /\ KeepSelection
  /\ UNCHANGED << logPre, modeHandler, lastData, clipboard >>

\* ------------------------------------------------------------------------
\* Selection in Idle mode
\* ------------------------------------------------------------------------
Placeables(S) == { id \in S : id \in DOMAIN entities /\ IsPlaceable(entities[id]) }
Wires(S) == { id \in S : id \in DOMAIN entities /\ IsWire(entities[id]) }

\* Every coordinate of the entities ents is within the model's range
PtInBounds(p) == p.x \in -CoordMax..CoordMax /\ p.y \in -CoordMax..CoordMax
InBounds(ents) ==
  \A id \in DOMAIN ents :
     /\ PtInBounds(ents[id].loc)
     /\ \A i \in 1..Len(ents[id].points) : PtInBounds(ents[id].points[i])

\* handleMouseDown with shift on an instance, port or wire: toggle its selection
ShiftClick(id) ==
  /\ modeHandler.mode = "Idle"
  /\ id \in members
  /\ IF id \in selected_entities
     THEN /\ selected_entities' = selected_entities \ {id}
          /\ selected_entity' = IF selected_entity = id THEN 0 ELSE selected_entity
          /\ highlighted' = highlighted \ {id}
          /\ UNCHANGED groupTransformCenter
     ELSE /\ selected_entities' = selected_entities \cup {id}
          /\ selected_entity' = id
          /\ highlighted' = highlighted \cup {id}
          /\ groupTransformCenter' = Null
  /\ LogsNothing(0)
  /\ UNCHANGED << entities, schematic, modeHandler, lastData, clipboard, drawn, threw >>

\* handleMouseDown on blank space then handleMouseUp without a pan: deselectAll
BlankClick ==
  /\ modeHandler.mode = "Idle"
  /\ DeselectAll
  /\ LogsNothing(0)
  /\ UNCHANGED << entities, schematic, modeHandler, lastData, clipboard, drawn, threw >>

\* SchEditor.selectAll (Cmd/Ctrl-A)
SelectAll ==
  /\ modeHandler.mode = "Idle"
  /\ selected_entities' = members
  /\ highlighted' = (highlighted \ selected_entities) \cup members
  /\ selected_entity' = IF members = {} THEN 0
                        ELSE LET W == Wires(members)
                                 P == { id \in members :
                                          entities[id].entityKind = "SchPort" }
                             IN IF W # {} THEN CHOOSE x \in W : \A y \in W : y <= x
                                ELSE IF P # {} THEN CHOOSE x \in P : \A y \in P : y <= x
                                ELSE CHOOSE x \in members : \A y \in members : y <= x
  /\ groupTransformCenter' = Null
  /\ LogsNothing(0)
  /\ UNCHANGED << entities, schematic, modeHandler, lastData, clipboard, drawn, threw >>

\* ------------------------------------------------------------------------
\* Moving: MoveInstance
\* ------------------------------------------------------------------------
MovingPlaceable(id, anchor) ==
  [entity |-> id, from |-> place(entities[id]), to |-> place(entities[id]),
   offsetX |-> entities[id].loc.x - anchor.x,
   offsetY |-> entities[id].loc.y - anchor.y]

MovingWire(id) == [wire |-> id, originalPoints |-> entities[id].points]

\* The point of the click that hit the entity
HitPoint(id) == IF IsWire(entities[id]) THEN entities[id].points[1] ELSE entities[id].loc

\* MoveInstance.start, MoveInstance.startWire, MoveInstance.startGroup
MoveInstanceStart(id) ==
  [mode |-> "MoveInstance",
   movingEntities |-> << MovingPlaceable(id, entities[id].loc) >>,
   movingWires |-> <<>>,
   anchorPoint |-> entities[id].loc,
   pre |-> PreOf({id})]

MoveInstanceStartWire(id, clickPoint) ==
  [mode |-> "MoveInstance",
   movingEntities |-> <<>>,
   movingWires |-> << MovingWire(id) >>,
   anchorPoint |-> nearestOnGrid(clickPoint),
   pre |-> PreOf({id})]

MoveInstanceStartGroup(placeables, wires, clickedPoint) ==
  LET anchor == nearestOnGrid(clickedPoint) IN
  [mode |-> "MoveInstance",
   movingEntities |-> [i \in 1..Len(placeables) |-> MovingPlaceable(placeables[i], anchor)],
   movingWires |-> [i \in 1..Len(wires) |-> MovingWire(wires[i])],
   anchorPoint |-> anchor,
   pre |-> PreOf({placeables[i] : i \in 1..Len(placeables)}
                 \cup {wires[i] : i \in 1..Len(wires)})]

\* Idle.handleMouseDown on an instance, port or wire
IdleMouseDown(id) ==
  /\ modeHandler.mode = "Idle"
  /\ id \in members
  /\ LET placeables == SetToSeq(Placeables(selected_entities))
         wires == SetToSeq(Wires(selected_entities))
     IN IF /\ Cardinality(selected_entities) > 1
           /\ id \in selected_entities
           /\ Len(placeables) + Len(wires) > 1
        THEN /\ modeHandler' = MoveInstanceStartGroup(placeables, wires, HitPoint(id))
             /\ KeepSelection
        ELSE /\ modeHandler' = IF IsWire(entities[id])
                               THEN MoveInstanceStartWire(id, HitPoint(id))
                               ELSE MoveInstanceStart(id)
             /\ Select(id)
  /\ LogsNothing(0)
  /\ UNCHANGED << entities, schematic, lastData, clipboard, drawn, threw >>

Translate(points, dx, dy) ==
  [i \in 1..Len(points) |-> Pt(points[i].x + dx, points[i].y + dy)]

\* MoveInstance.updateMove on handleMouseMove
UpdateMove(m) ==
  /\ modeHandler.mode = "MoveInstance"
  /\ LET mh == modeHandler
         newAnchor == nearestOnGrid(m)
         deltaX == newAnchor.x - mh.anchorPoint.x
         deltaY == newAnchor.y - mh.anchorPoint.y
         snapped(mv) == nearestOnGrid(Pt(mh.anchorPoint.x + mv.offsetX + deltaX,
                                         mh.anchorPoint.y + mv.offsetY + deltaY))
         movedP == { mh.movingEntities[i].entity : i \in 1..Len(mh.movingEntities) }
         movedW == { mh.movingWires[i].wire : i \in 1..Len(mh.movingWires) }
         mvOf(id) == mh.movingEntities[CHOOSE i \in 1..Len(mh.movingEntities) :
                                         mh.movingEntities[i].entity = id]
         mwOf(id) == mh.movingWires[CHOOSE i \in 1..Len(mh.movingWires) :
                                      mh.movingWires[i].wire = id]
     IN /\ modeHandler' =
             [mh EXCEPT !.movingEntities =
                [i \in 1..Len(mh.movingEntities) |->
                   [mh.movingEntities[i] EXCEPT !.to.loc = snapped(mh.movingEntities[i])]]]
        /\ entities' =
             [id \in DOMAIN entities |->
                IF id \in movedP THEN [entities[id] EXCEPT !.loc = snapped(mvOf(id))]
                ELSE IF id \in movedW
                THEN [entities[id] EXCEPT
                        !.points = Translate(mwOf(id).originalPoints, deltaX, deltaY)]
                ELSE entities[id]]
        /\ drawn' = drawn \cup movedP \cup movedW
  /\ InBounds(entities')
  /\ LogsNothing(0)
  /\ KeepSelection
  /\ UNCHANGED << schematic, lastData, clipboard, threw >>

\* MoveInstance.commitMove on handleMouseUp
CommitMove ==
  /\ modeHandler.mode = "MoveInstance"
  /\ LET mh == modeHandler
         moves == [i \in 1..Len(mh.movingEntities) |->
                     [kind |-> "Move", entity |-> mh.movingEntities[i].entity,
                      from |-> mh.movingEntities[i].from,
                      to |-> mh.movingEntities[i].to]]
         wmoves == [i \in 1..Len(mh.movingWires) |->
                      [kind |-> "MoveWire", wire |-> mh.movingWires[i].wire,
                       from |-> mh.movingWires[i].originalPoints,
                       to |-> entities[mh.movingWires[i].wire].points]]
         changes == moves \o wmoves
     IN IF Len(changes) > 1
        THEN Logs(<< [kind |-> "Batch", changes |-> changes] >>, << mh.pre >>)
        ELSE Logs(changes, << mh.pre >>)
  /\ modeHandler' = Idle
  /\ KeepSelection
  /\ UNCHANGED << entities, schematic, lastData, clipboard, drawn, threw >>

\* MoveInstance.getGroupCenter
getGroupCenter(mh) ==
  LET xs == [i \in 1..Len(mh.movingEntities) |-> entities[mh.movingEntities[i].entity].loc.x]
            \o [i \in 1..Len(mh.movingWires) |->
                  getCentroid(entities[mh.movingWires[i].wire].points).x]
      ys == [i \in 1..Len(mh.movingEntities) |-> entities[mh.movingEntities[i].entity].loc.y]
            \o [i \in 1..Len(mh.movingWires) |->
                  getCentroid(entities[mh.movingWires[i].wire].points).y]
  IN Pt(RoundToGrid(SumSeq(xs), Len(xs)), RoundToGrid(SumSeq(ys), Len(ys)))

\* The location of a placeable rotated 90 degrees around center, snapped to the grid
RotateLoc(loc, center) ==
  nearestOnGrid(Pt(center.x + (loc.y - center.y), center.y - (loc.x - center.x)))

\* The location of a placeable reflected about center, snapped to the grid
FlipLoc(loc, center, dir) ==
  nearestOnGrid(IF dir = "Horiz" THEN Pt(center.x - (loc.x - center.x), loc.y)
                ELSE Pt(loc.x, center.y - (loc.y - center.y)))

\* The transform a key stands for: "r" rotates, "h" and "v" flip
TurnOrientation(key, o) ==
  IF key = "r" THEN rotate(o) ELSE flip(o, IF key = "h" THEN "Horiz" ELSE "Vert")

TurnLoc(key, loc, center) ==
  IF key = "r" THEN RotateLoc(loc, center)
  ELSE FlipLoc(loc, center, IF key = "h" THEN "Horiz" ELSE "Vert")

TurnPoints(key, points, center) ==
  IF key = "r" THEN rotateAround(points, center)
  ELSE flipAround(points, center, key = "h")

\* The body shared by rotateGroup and flipGroup: every moving entity is turned
\* about the group center; the offsets follow the entities, originalPoints the
\* wires
GroupTransformed(mh, key) ==
  LET center == getGroupCenter(mh)
      newLoc(id) == TurnLoc(key, entities[id].loc, center)
      newOrientation(id) == TurnOrientation(key, entities[id].orientation)
      newPoints(id) == TurnPoints(key, entities[id].points, center)
      movedP == { mh.movingEntities[i].entity : i \in 1..Len(mh.movingEntities) }
      movedW == { mh.movingWires[i].wire : i \in 1..Len(mh.movingWires) }
  IN [entities |->
        [id \in DOMAIN entities |->
           IF id \in movedP
           THEN [entities[id] EXCEPT !.loc = newLoc(id), !.orientation = newOrientation(id)]
           ELSE IF id \in movedW THEN [entities[id] EXCEPT !.points = newPoints(id)]
           ELSE entities[id]],
      handler |->
        [mh EXCEPT
           !.movingEntities =
              [i \in 1..Len(mh.movingEntities) |->
                 [mh.movingEntities[i] EXCEPT
                    !.offsetX = newLoc(mh.movingEntities[i].entity).x - mh.anchorPoint.x,
                    !.offsetY = newLoc(mh.movingEntities[i].entity).y - mh.anchorPoint.y]],
           !.movingWires =
              [i \in 1..Len(mh.movingWires) |->
                 [mh.movingWires[i] EXCEPT
                    !.originalPoints = newPoints(mh.movingWires[i].wire)]]],
      drawn |-> drawn \cup movedP \cup movedW]

\* MoveInstance.rotateGroup
rotateGroup(mh) == GroupTransformed(mh, "r")

\* MoveInstance.flipGroup
flipGroup(mh, dir) == GroupTransformed(mh, IF dir = "Horiz" THEN "h" ELSE "v")

\* MoveInstance.handleKey: "r", "h" or "v" during the drag
MoveInstanceKey(key) ==
  /\ modeHandler.mode = "MoveInstance"
  /\ LET mh == modeHandler
         totalCount == Len(mh.movingEntities) + Len(mh.movingWires)
         single == mh.movingEntities[1].entity
     IN IF totalCount = 1 /\ Len(mh.movingEntities) = 1
        THEN /\ entities' =
                  [entities EXCEPT ![single].orientation =
                     IF key = "r" THEN rotate(@)
                     ELSE flip(@, IF key = "h" THEN "Horiz" ELSE "Vert")]
             /\ drawn' = drawn \cup {single}
             /\ UNCHANGED modeHandler
        ELSE IF totalCount > 1
        THEN LET r == IF key = "r" THEN rotateGroup(mh)
                      ELSE flipGroup(mh, IF key = "h" THEN "Horiz" ELSE "Vert")
             IN /\ entities' = r.entities
                /\ modeHandler' = r.handler
                /\ drawn' = r.drawn
        ELSE UNCHANGED << entities, modeHandler, drawn >>
  /\ InBounds(entities')
  /\ LogsNothing(0)
  /\ KeepSelection
  /\ UNCHANGED << schematic, lastData, clipboard, threw >>

\* MoveInstance.abort on Escape
MoveInstanceAbort ==
  /\ modeHandler.mode = "MoveInstance"
  /\ LET mh == modeHandler
         movedP == { mh.movingEntities[i].entity : i \in 1..Len(mh.movingEntities) }
         movedW == { mh.movingWires[i].wire : i \in 1..Len(mh.movingWires) }
         mvOf(id) == mh.movingEntities[CHOOSE i \in 1..Len(mh.movingEntities) :
                                         mh.movingEntities[i].entity = id]
         mwOf(id) == mh.movingWires[CHOOSE i \in 1..Len(mh.movingWires) :
                                      mh.movingWires[i].wire = id]
     IN /\ entities' =
             [id \in DOMAIN entities |->
                IF id \in movedP
                THEN [entities[id] EXCEPT !.loc = mvOf(id).from.loc,
                                          !.orientation = mvOf(id).from.orientation]
                ELSE IF id \in movedW
                THEN [entities[id] EXCEPT !.points = mwOf(id).originalPoints]
                ELSE entities[id]]
        /\ drawn' = drawn \cup movedP \cup movedW
  /\ Deselect
  /\ modeHandler' = Idle
  /\ EscapeKey
  /\ UNCHANGED << schematic, lastData, clipboard, threw >>

\* ------------------------------------------------------------------------
\* Rotating and flipping the selection in Idle mode
\* ------------------------------------------------------------------------
\* getSelectionCenter, snapped with nearestOnGrid
SelectionGridCenter(placeables, wires) ==
  LET xs == [i \in 1..Len(placeables) |-> entities[placeables[i]].loc.x]
            \o [i \in 1..Len(wires) |-> getCentroid(entities[wires[i]].points).x]
      ys == [i \in 1..Len(placeables) |-> entities[placeables[i]].loc.y]
            \o [i \in 1..Len(wires) |-> getCentroid(entities[wires[i]].points).y]
  IN Pt(RoundToGrid(SumSeq(xs), Len(xs)), RoundToGrid(SumSeq(ys), Len(ys)))

\* The body shared by rotateSelected ("r") and flipSelected ("h", "v")
TransformSelected(key) ==
  LET inPlace(o) == TurnOrientation(key, o)
      locAround(loc, c) == TurnLoc(key, loc, c)
      pointsAround(points, c) == TurnPoints(key, points, c)
      placeables == SetToSeq(Placeables(selected_entities))
      wires == SetToSeq(Wires(selected_entities))
      totalCount == Len(placeables) + Len(wires)
  IN
  IF totalCount = 0
  THEN /\ LogsNothing(0)
       /\ UNCHANGED << entities, drawn, groupTransformCenter >>
  ELSE IF totalCount = 1 /\ Len(placeables) = 1
  THEN LET id == placeables[1]
           to == [entities[id] EXCEPT !.orientation = inPlace(@)]
       IN /\ entities' = [entities EXCEPT ![id] = to]
          /\ drawn' = drawn \cup {id}
          /\ Logs(<< [kind |-> "Move", entity |-> id,
                          from |-> place(entities[id]), to |-> place(to)] >>,
                  << PreOf({id}) >>)
          /\ UNCHANGED groupTransformCenter
  ELSE IF totalCount = 1
  THEN LET id == wires[1]
           to == pointsAround(entities[id].points, getCentroid(entities[id].points))
       IN /\ entities' = [entities EXCEPT ![id].points = to]
          /\ drawn' = drawn \cup {id}
          /\ Logs(<< [kind |-> "MoveWire", wire |-> id,
                          from |-> entities[id].points, to |-> to] >>,
                  << PreOf({id}) >>)
          /\ UNCHANGED groupTransformCenter
  ELSE LET gridCenter == IF groupTransformCenter.kind = "Null"
                         THEN [kind |-> "Point",
                               at |-> SelectionGridCenter(placeables, wires)]
                         ELSE groupTransformCenter
           c == gridCenter.at
           newP(id) == [entities[id] EXCEPT !.loc = locAround(@, c),
                                            !.orientation = inPlace(@)]
           newW(id) == [entities[id] EXCEPT !.points = pointsAround(@, c)]
           P == { placeables[i] : i \in 1..Len(placeables) }
           W == { wires[i] : i \in 1..Len(wires) }
           moves == [i \in 1..Len(placeables) |->
                       [kind |-> "Move", entity |-> placeables[i],
                        from |-> place(entities[placeables[i]]),
                        to |-> place(newP(placeables[i]))]]
           wmoves == [i \in 1..Len(wires) |->
                        [kind |-> "MoveWire", wire |-> wires[i],
                         from |-> entities[wires[i]].points,
                         to |-> newW(wires[i]).points]]
       IN /\ groupTransformCenter' = gridCenter
          /\ entities' = [id \in DOMAIN entities |->
                            IF id \in P THEN newP(id)
                            ELSE IF id \in W THEN newW(id) ELSE entities[id]]
          /\ drawn' = drawn \cup P \cup W
          /\ Logs(<< [kind |-> "Batch", changes |-> moves \o wmoves] >>,
                  << PreOf(P \cup W) >>)

\* SchEditor.rotateSelected (Idle, key "r")
RotateSelected ==
  /\ modeHandler.mode = "Idle"
  /\ TransformSelected("r")
  /\ InBounds(entities')
  /\ UNCHANGED << schematic, modeHandler, selected_entities, selected_entity,
                  highlighted, lastData, clipboard, threw >>

\* SchEditor.flipSelected (Idle, keys "h" and "v")
FlipSelected(dir) ==
  /\ modeHandler.mode = "Idle"
  /\ TransformSelected(IF dir = "Horiz" THEN "h" ELSE "v")
  /\ InBounds(entities')
  /\ UNCHANGED << schematic, modeHandler, selected_entities, selected_entity,
                  highlighted, lastData, clipboard, threw >>

\* ------------------------------------------------------------------------
\* Delete, copy, cut, paste
\* ------------------------------------------------------------------------
\* deleteSelectedEntities: one Remove is logged per entity
Deletes ==
  LET ids == SetToSeq(selected_entities)
      S == selected_entities
  IN /\ schematic' = [schematic EXCEPT !.members = @ \ S]
     /\ drawn' = drawn \ S
     /\ Logs([i \in 1..Len(ids) |-> [kind |-> "Remove", entity |-> ids[i]]],
             [i \in 1..Len(ids) |-> PreOf({ids[i]})])
     /\ DeselectAll
     /\ modeHandler' = Idle

\* copySelection: the clipboard holds clones of the data
Copied ==
  LET ids == SetToSeq(Placeables(selected_entities) \cup Wires(selected_entities))
  IN [i \in 1..Len(ids) |-> entities[ids[i]]]

\* Idle.handleKey Delete / Backspace
DeleteSelectedEntities ==
  /\ modeHandler.mode = "Idle"
  /\ Deletes
  /\ UNCHANGED << entities, lastData, clipboard, threw >>

\* Cmd/Ctrl-C
CopySelection ==
  /\ modeHandler.mode = "Idle"
  /\ clipboard' = Copied
  /\ LogsNothing(0)
  /\ KeepSelection
  /\ UNCHANGED << entities, schematic, modeHandler, lastData, drawn, threw >>

\* Cmd/Ctrl-X
CutSelection ==
  /\ modeHandler.mode = "Idle"
  /\ clipboard' = Copied
  /\ Deletes
  /\ UNCHANGED << entities, lastData, threw >>

\* The entity pasteClipboard creates from a clipboard item
Pasted(item) ==
  IF IsWire(item)
  THEN WireCreate(Translate(item.points, PasteOffset, PasteOffset))
  ELSE [item EXCEPT !.loc = Pt(@.x + PasteOffset, @.y + PasteOffset),
                    !.name = @ \o <<"_copy">>]

\* Cmd/Ctrl-V
PasteClipboard ==
  /\ modeHandler.mode = "Idle"
  /\ IF clipboard = <<>>
     THEN /\ LogsNothing(0)
          /\ KeepSelection
          /\ UNCHANGED << entities, schematic, drawn >>
     ELSE LET new == [i \in 1..Len(clipboard) |-> Pasted(clipboard[i])]
              ids == (Len(entities) + 1)..(Len(entities) + Len(new))
          IN /\ Len(entities) + Len(new) <= MaxEnt
             /\ \A i \in 1..Len(new) : Len(new[i].name) <= MaxNameLen
             /\ entities' = entities \o new
             /\ InBounds(entities')
             /\ schematic' = [schematic EXCEPT !.members = @ \cup ids]
             /\ drawn' = drawn \cup ids
             /\ selected_entities' = ids
             /\ selected_entity' = Len(entities) + Len(new)
             /\ highlighted' = (highlighted \ selected_entities) \cup ids
             /\ groupTransformCenter' = Null
             /\ Logs([i \in 1..Len(new) |-> [kind |-> "Add", entity |-> Len(entities) + i]],
                     [i \in 1..Len(new) |-> PreOf({Len(entities) + i})])
  /\ UNCHANGED << modeHandler, lastData, clipboard, threw >>

\* ------------------------------------------------------------------------
\* Editing a label: EditLabel
\* ------------------------------------------------------------------------
\* The identity of the name label of entity id
LabelOf(id) == 0 - id

TypedKeys == {"x"}

\* Idle.handleMouseDown on a name label -> EditLabel.start, select(label)
StartEditLabel(id) ==
  /\ modeHandler.mode = "Idle"
  /\ id \in members /\ IsPlaceable(entities[id])
  /\ modeHandler' = [mode |-> "EditLabel", label |-> id, orig |-> entities[id].name,
                     pre |-> PreOf({id})]
  /\ Select(LabelOf(id))
  /\ LogsNothing(0)
  /\ UNCHANGED << entities, schematic, lastData, clipboard, drawn, threw >>

\* EditLabel.handleKey: an identifier character or Backspace -> Label.update
EditLabelKey(key) ==
  /\ modeHandler.mode = "EditLabel"
  /\ LET text == entities[modeHandler.label].name
         new == IF key = "Backspace" THEN SubSeq(text, 1, Len(text) - 1)
                ELSE Append(text, key)
     IN /\ Len(new) <= MaxNameLen
        /\ entities' = [entities EXCEPT ![modeHandler.label].name = new]
  /\ LogsNothing(0)
  /\ KeepSelection
  /\ UNCHANGED << schematic, modeHandler, lastData, clipboard, drawn, threw >>

\* EditLabel.commitEditLabel: Enter, or a click on blank space
CommitEditLabel ==
  /\ modeHandler.mode = "EditLabel"
  /\ Logs(<< [kind |-> "EditText", label |-> modeHandler.label,
              from |-> modeHandler.orig, to |-> entities[modeHandler.label].name] >>,
          << modeHandler.pre >>)
  /\ Deselect
  /\ modeHandler' = Idle
  /\ UNCHANGED << entities, schematic, lastData, clipboard, drawn, threw >>

\* EditLabel.abort on Escape
EditLabelAbort ==
  /\ modeHandler.mode = "EditLabel"
  /\ entities' = [entities EXCEPT ![modeHandler.label].name = modeHandler.orig]
  /\ Deselect
  /\ modeHandler' = Idle
  /\ EscapeKey
  /\ UNCHANGED << schematic, lastData, clipboard, drawn, threw >>

\* ------------------------------------------------------------------------
\* Placing a port: PortReady
\* ------------------------------------------------------------------------
\* Idle.startAddPort -> PortReady.start
StartAddPort(m) ==
  /\ modeHandler.mode = "Idle"
  /\ LET port == NewPlaceable("SchPort", lastData.port.kind,
                   defaultName(lastData.port.kind),
                   nearestOnGrid(m), lastData.port.orientation)
     IN modeHandler' = [mode |-> "PortReady", port |-> port]
  /\ Select(Pending)
  /\ drawn' = drawn \cup {Pending}
  /\ LogsNothing(0)
  /\ UNCHANGED << entities, schematic, lastData, clipboard, threw >>

\* PortReady.handleMouseMove -> updateLoc
PortReadyMouseMove(m) ==
  /\ modeHandler.mode = "PortReady"
  /\ modeHandler' = [modeHandler EXCEPT !.port.loc = nearestOnGrid(m)]
  /\ drawn' = drawn \cup {Pending}
  /\ LogsNothing(0)
  /\ KeepSelection
  /\ UNCHANGED << entities, schematic, lastData, clipboard, threw >>

\* PortReady.rotate / flip; lastPortData is the port's own data object
PortReadyRotate ==
  /\ modeHandler.mode = "PortReady"
  /\ LET o == rotate(modeHandler.port.orientation)
     IN /\ modeHandler' = [modeHandler EXCEPT !.port.orientation = o]
        /\ lastData' = [lastData EXCEPT !.port.orientation = o]
  /\ LogsNothing(0)
  /\ KeepSelection
  /\ UNCHANGED << entities, schematic, clipboard, drawn, threw >>

PortReadyFlip(dir) ==
  /\ modeHandler.mode = "PortReady"
  /\ LET o == flip(modeHandler.port.orientation, dir)
     IN /\ modeHandler' = [modeHandler EXCEPT !.port.orientation = o]
        /\ lastData' = [lastData EXCEPT !.port.orientation = o]
  /\ LogsNothing(0)
  /\ KeepSelection
  /\ UNCHANGED << entities, schematic, clipboard, drawn, threw >>

\* PortReady.changePortKind
ChangePortKind(kind) ==
  /\ modeHandler.mode = "PortReady"
  /\ LET port == modeHandler.port
         isUserCustomized == port.name # defaultName(port.kind)
     IN modeHandler' = [modeHandler EXCEPT
                          !.port.kind = kind,
                          !.port.name = IF isUserCustomized THEN @ ELSE defaultName(kind)]
  /\ lastData' = [lastData EXCEPT !.port.kind = kind]
  /\ drawn' = drawn \cup {Pending}
  /\ LogsNothing(0)
  /\ KeepSelection
  /\ UNCHANGED << entities, schematic, clipboard, threw >>

\* PortReady.commit
PortReadyCommit ==
  /\ modeHandler.mode = "PortReady"
  /\ Len(entities) < MaxEnt
  /\ LET id == Len(entities) + 1 IN
       /\ entities' = Append(entities, modeHandler.port)
       /\ schematic' = [schematic EXCEPT !.members = @ \cup {id}]
       /\ drawn' = (drawn \ {Pending}) \cup {id}
       /\ Logs(<< [kind |-> "Add", entity |-> id] >>,
               << PreOf({id}) >>)
  /\ lastData' = [lastData EXCEPT !.port = [kind |-> modeHandler.port.kind,
                                            orientation |-> modeHandler.port.orientation]]
  /\ Deselect
  /\ modeHandler' = Idle
  /\ UNCHANGED << clipboard, threw >>

\* PortReady.abort
PortReadyAbort ==
  /\ modeHandler.mode = "PortReady"
  /\ Deselect
  /\ drawn' = drawn \ {Pending}
  /\ modeHandler' = Idle
  /\ EscapeKey
  /\ UNCHANGED << entities, schematic, lastData, clipboard, threw >>

\* ------------------------------------------------------------------------
\* Symbol graphics and the parameter editor
\* ------------------------------------------------------------------------
\* Idle.startDrawLine -> LineReady.start
StartDrawLine ==
  /\ modeHandler.mode = "Idle"
  /\ modeHandler' = [mode |-> "LineReady"]
  /\ LogsNothing(0)
  /\ KeepSelection
  /\ UNCHANGED << entities, schematic, lastData, clipboard, drawn, threw >>

\* LineReady.handleMouseDown -> DrawLine.start
LineReadyMouseDown ==
  /\ modeHandler.mode = "LineReady"
  /\ modeHandler' = [mode |-> "DrawLine"]
  /\ LogsNothing(0)
  /\ KeepSelection
  /\ UNCHANGED << entities, schematic, lastData, clipboard, drawn, threw >>

\* DrawLine.handleMouseUp: push the path, sendChangeMessage, goUiIdle
DrawLineMouseUp ==
  /\ modeHandler.mode = "DrawLine"
  /\ schematic.otherSvgElements < MaxSvg
  /\ schematic' = [schematic EXCEPT !.otherSvgElements = @ + 1]
  /\ modeHandler' = Idle
  /\ LogsNothing(1)
  /\ KeepSelection
  /\ UNCHANGED << entities, lastData, clipboard, drawn, threw >>

\* LineReady.abort / DrawLine.abort on Escape
DrawLineAbort ==
  /\ modeHandler.mode \in {"LineReady", "DrawLine"}
  /\ modeHandler' = Idle
  /\ EscapeKey
  /\ KeepSelection
  /\ UNCHANGED << entities, schematic, lastData, clipboard, drawn, threw >>

NameInputs == { <<"x">> }

\* Idle.showParamEditor, applyBtn.onclick: rename the instance, sendChangeMessage
ParamEditorApply(id, newName) ==
  /\ modeHandler.mode = "Idle"
  /\ id \in Instances
  /\ entities' = [entities EXCEPT ![id].name = IF newName # <<>> /\ newName # @
                                               THEN newName ELSE @]
  /\ LogsNothing(1)
  /\ KeepSelection
  /\ UNCHANGED << schematic, modeHandler, lastData, clipboard, drawn, threw >>

\* The prelude text field takes the focus: SchEditor.startEditPrelude
StartEditPrelude ==
  /\ modeHandler.mode = "Idle"
  /\ modeHandler' = [mode |-> "EditPrelude"]
  /\ LogsNothing(0)
  /\ KeepSelection
  /\ UNCHANGED << entities, schematic, lastData, clipboard, drawn, threw >>

\* The prelude text field loses the focus: SchEditor.goUiIdle
EditPreludeBlur ==
  /\ modeHandler.mode = "EditPrelude"
  /\ modeHandler' = Idle
  /\ LogsNothing(0)
  /\ KeepSelection
  /\ UNCHANGED << entities, schematic, lastData, clipboard, drawn, threw >>

\* SchEditor.handleKey in EditPrelude mode: every key, Escape included, is left
\* to the text field
EditPreludeEscape ==
  /\ modeHandler.mode = "EditPrelude"
  /\ EscapeKey
  /\ KeepSelection
  /\ UNCHANGED << entities, schematic, modeHandler, lastData, clipboard, drawn, threw >>

\* Idle.abort on Escape: deselect
IdleAbort ==
  /\ modeHandler.mode = "Idle"
  /\ Deselect
  /\ EscapeKey
  /\ UNCHANGED << entities, schematic, modeHandler, lastData, clipboard, drawn, threw >>

\* ------------------------------------------------------------------------
\* The editor
\* ------------------------------------------------------------------------
Ids == 1..MaxEnt

Next ==
  \/ \E body \in FileBodies : LoadFile(body)
  \/ RequestContent
  \/ \E m \in MousePts : StartAddInstance(m)
  \/ \E m \in MousePts : InstanceReadyMouseMove(m)
  \/ InstanceReadyRotate
  \/ \E dir \in Directions : InstanceReadyFlip(dir)
  \/ \E kind \in Elements : ChangeInstanceKind(kind)
  \/ InstanceReadyCommit
  \/ InstanceReadyAbort
  \/ \E m \in MousePts : StartAddPort(m)
  \/ \E m \in MousePts : PortReadyMouseMove(m)
  \/ PortReadyRotate
  \/ \E dir \in Directions : PortReadyFlip(dir)
  \/ \E kind \in PortElements : ChangePortKind(kind)
  \/ PortReadyCommit
  \/ PortReadyAbort
  \/ Undo
  \/ Redo
  \/ \E id \in Ids : ShiftClick(id)
  \/ BlankClick
  \/ SelectAll
  \/ \E id \in Ids : IdleMouseDown(id)
  \/ \E m \in MousePts : UpdateMove(m)
  \/ CommitMove
  \/ \E key \in {"r", "h", "v"} : MoveInstanceKey(key)
  \/ MoveInstanceAbort
  \/ RotateSelected
  \/ \E dir \in Directions : FlipSelected(dir)
  \/ DeleteSelectedEntities
  \/ CopySelection
  \/ CutSelection
  \/ PasteClipboard
  \/ \E id \in Ids : StartEditLabel(id)
  \/ \E key \in TypedKeys \cup {"Backspace"} : EditLabelKey(key)
  \/ CommitEditLabel
  \/ EditLabelAbort
  \/ StartDrawLine
  \/ LineReadyMouseDown
  \/ DrawLineMouseUp
  \/ DrawLineAbort
  \/ \E id \in Ids, newName \in NameInputs : ParamEditorApply(id, newName)
  \/ IdleAbort
  \/ StartEditPrelude
  \/ EditPreludeBlur
  \/ EditPreludeEscape

Spec == Init /\ [][Next]_vars

\* ------------------------------------------------------------------------
\* Creating wires from given points
\* ------------------------------------------------------------------------
WirePts == { Pt(0, 0), Pt(10, 0), Pt(0, 10), Pt(10, 10), Pt(20, 0), Pt(20, 10) }

\* Point sequences of two or three points, consecutive points distinct
WireInputs ==
  { ps \in [1..2 -> WirePts] \cup [1..3 -> WirePts] :
      \A i \in 1..(Len(ps) - 1) : ps[i] # ps[i + 1] }

\* Wire.create(points), then schematic.addWire(wire) and wire.draw()
CreateWire(points) ==
  /\ entities = <<>>
  /\ entities' = << WireCreate(points) >>
  /\ schematic' = [schematic EXCEPT !.members = @ \cup {1}]
  /\ drawn' = drawn \cup {1}
  /\ LogsNothing(0)
  /\ KeepSelection
  /\ UNCHANGED << modeHandler, lastData, clipboard, threw >>

NextWire == \E points \in WireInputs : CreateWire(points)

SpecWire == Init /\ [][NextWire]_vars

\* ------------------------------------------------------------------------
\* The geometry functions on a pending instance of any location and orientation
\* ------------------------------------------------------------------------
GeomCoords == { -15, -14, -5, 0, 4, 5, 16 }

\* Instance.create with a location and an orientation given by the caller
InitGeom ==
  /\ \E x \in GeomCoords, y \in GeomCoords, o \in Orientations :
        modeHandler = [mode |-> "InstanceReady",
                       instance |-> NewPlaceable("Instance", "Nmos", <<"n", "0">>,
                                                 Pt(x, y), o)]
  /\ entities = <<>>
  /\ schematic = [members |-> {}, otherSvgElements |-> 0, born |-> 0]
  /\ changeLog = [log |-> <<>>, cursor |-> 0]
  /\ selected_entities = {Pending}
  /\ selected_entity = Pending
  /\ highlighted = {Pending}
  /\ groupTransformCenter = Null
  /\ lastData = [instance |-> [kind |-> "Nmos", orientation |-> OrientationDefault],
                 port |-> [kind |-> "Input", orientation |-> OrientationDefault]]
  /\ clipboard = <<>>
  /\ drawn = {Pending}
  /\ threw = FALSE
  /\ lastStep = Step(0, FALSE)
  /\ logPre = <<>>
  /\ events = 0
  /\ pdkElementRegistry = <<>>
  /\ customElementRegistry = <<>>
  /\ doc = NewDocument
  /\ bridge = StartedBridge

\* nearestOnGrid applied to the pending instance's location
SnapPending ==
  /\ modeHandler.mode = "InstanceReady"
  /\ modeHandler' = [modeHandler EXCEPT !.instance.loc = nearestOnGrid(@)]
  /\ LogsNothing(0)
  /\ KeepSelection
  /\ UNCHANGED << entities, schematic, lastData, clipboard, drawn, threw >>

NextGeom ==
  \/ SnapPending
  \/ InstanceReadyRotate
  \/ \E dir \in Directions : InstanceReadyFlip(dir)

SpecGeom == InitGeom /\ [][NextGeom]_vars

\* ------------------------------------------------------------------------
\* Dots: the junction markers inferred from the wires
\* ------------------------------------------------------------------------
\* The two ends of a wire
WireEnds(points) == { points[1], points[Len(points)] }

\* p lies on the segment from a to b
OnSegment(p, a, b) ==
  /\ (b.x - a.x) * (p.y - a.y) = (b.y - a.y) * (p.x - a.x)
  /\ (a.x <= p.x /\ p.x <= b.x) \/ (b.x <= p.x /\ p.x <= a.x)
  /\ (a.y <= p.y /\ p.y <= b.y) \/ (b.y <= p.y /\ p.y <= a.y)

\* The wire passes through p somewhere between its two ends
PassesThrough(points, p) ==
  /\ p \notin WireEnds(points)
  /\ \E i \in 1..(Len(points) - 1) : OnSegment(p, points[i], points[i + 1])

\* The ends of wires after wire i only that wire i passes through
MidTouchesOfLater(ws, i) ==
  { p \in UNION { WireEnds(ws[j]) : j \in (i + 1)..Len(ws) } :
      PassesThrough(ws[i], p) }

\* The ends of the other wires that wire i passes through
MidTouches(ws, i) ==
  { p \in UNION { WireEnds(ws[j]) : j \in (1..Len(ws)) \ {i} } :
      PassesThrough(ws[i], p) }

\* Wire i adds one to the tally of each location where it ends (two if both of
\* its ends are there) and one where it passes through another wire's end
TallyWire(ws, i, tally) ==
  LET first == ws[i][1]
      last == ws[i][Len(ws[i])]
      mids == MidTouches(ws, i)
  IN [p \in DOMAIN tally \cup {first, last} \cup mids |->
        LET old == IF p \in DOMAIN tally THEN tally[p]
                   ELSE [count |-> 0, tee |-> FALSE]
        IN [count |-> old.count + (IF first = p THEN 1 ELSE 0)
                                + (IF last = p THEN 1 ELSE 0)
                                + (IF p \in mids THEN 1 ELSE 0),
            tee |-> old.tee \/ p \in mids]]

\* The tally after the first i wires, taken in iteration order
RECURSIVE Tally(_, _)
Tally(ws, i) == IF i = 0 THEN <<>> ELSE TallyWire(ws, i, Tally(ws, i - 1))

\* The locations that get a Dot: three or more coincidences, or two where one
\* wire ends on the middle of another
inferDots(ws) ==
  LET tally == Tally(ws, Len(ws))
  IN { p \in DOMAIN tally :
         tally[p].count >= 3 \/ (tally[p].count = 2 /\ tally[p].tee) }

\* Schematic.updateDots: the dots kept so far are dropped, the new ones are
\* inferred from the wires alone
updateDots(dots, ws) == inferDots(ws)

\* The point lists of the schematic's wires, in the order they were added
SchWires ==
  LET ids == SetToSeq(Wires(schematic.members))
  IN [i \in 1..Len(ids) |-> entities[ids[i]].points]

\* The orders in which n wires can be iterated
Orders(n) == { f \in [1..n -> 1..n] : \A i, j \in 1..n : f[i] = f[j] => i = j }

DotPts == { Pt(0, 0), Pt(10, 0), Pt(20, 0), Pt(10, 10) }

\* Straight wires between two of the points, and one wire with a corner
DotWireInputs ==
  { ps \in [1..2 -> DotPts] : ps[1] # ps[2] }
    \cup { << Pt(0, 0), Pt(10, 0), Pt(10, 10) >> }

\* Wire.create(points), schematic.addWire(wire), wire.draw() and updateDots()
AddWire(points) ==
  /\ Len(entities) < MaxEnt
  /\ LET id == Len(entities) + 1
     IN /\ entities' = Append(entities, WireCreate(points))
        /\ schematic' = [schematic EXCEPT !.members = @ \cup {id}]
        /\ drawn' = drawn \cup {id}
  /\ LogsNothing(0)
  /\ KeepSelection
  /\ UNCHANGED << modeHandler, lastData, clipboard, threw >>

NextDots == \E points \in DotWireInputs : AddWire(points)

SpecDots == Init /\ [][NextDots]_vars

\* ------------------------------------------------------------------------
\* PDK devices: the element registry and SchEditor.addPdkDevice
\* ------------------------------------------------------------------------
\* Names are strings, kept as their sequences of characters
PdkNames == { <<"g">>, <<"g", ":", "n">> }
DeviceNames == { <<"M">>, <<"n", ":", "M">> }
SymbolTypes == Elements \cup {"Bogus"}

\* PdkDeviceInfo: the fields createPdkElement reads
PdkDevices == [name : DeviceNames, symbol_type : SymbolTypes]

\* String.toLowerCase on one character
toLowerCase(c) == IF c = "M" THEN "m" ELSE c

\* `${pdkName}:${device.name}`
registryKey(device, pdkName) == pdkName \o <<":">> \o device.name

\* ElementMap.get(symbolType): the element's kind, or undefined
ElementMapGet(symbolType) ==
  IF symbolType \in Elements THEN symbolType ELSE "undefined"

\* createPdkElementFromBase: the element built on the base element's kind
createPdkElementFromBase(baseKind, device) ==
  [kind |-> baseKind,
   defaultNamePrefix |-> << toLowerCase(device.name[1]) >>,
   defaultOf |-> device.name \o <<"(", ")">>,
   pdkDeviceName |-> device.name]

\* The (pdk name, device name) pairs of the calls made so far; every call is
\* remembered with the registry entry it returned
EarlierCalls == UNION { pdkElementRegistry[k].users : k \in DOMAIN pdkElementRegistry }

\* createPdkElement: the registered element of the key if there is one, or else
\* a new element on the base element of the symbol type, Nmos if there is none
createPdkElement(device, pdkName) ==
  LET key == registryKey(device, pdkName)
      pair == << pdkName, device.name >>
      base == ElementMapGet(device.symbol_type)
  IN IF key \in DOMAIN pdkElementRegistry
     THEN [existing |-> TRUE, key |-> key,
           element |-> pdkElementRegistry[key].element,
           users |-> pdkElementRegistry[key].users \cup {pair}]
     ELSE [existing |-> FALSE, key |-> key,
           element |-> createPdkElementFromBase(
                         IF base = "undefined" THEN "Nmos" ELSE base, device),
           users |-> {pair}]

\* SchEditor.addPdkDevice, in any mode: createPdkElement, lastInstanceData, then
\* InstanceReady.start (the prelude's text is not part of the state kept here)
AddPdkDevice(device, pdkName, m) ==
  LET r == createPdkElement(device, pdkName)
      inst == NewPlaceable("Instance", r.element.kind,
                r.element.defaultNamePrefix \o <<NumStr(num_instances)>>,
                nearestOnGrid(m), OrientationDefault)
  IN /\ pdkElementRegistry' =
          [k \in DOMAIN pdkElementRegistry \cup {r.key} |->
             IF k = r.key THEN [element |-> r.element, users |-> r.users]
             ELSE pdkElementRegistry[k]]
     /\ lastData' = [lastData EXCEPT
                       !.instance = [kind |-> r.element.kind,
                                     orientation |-> OrientationDefault]]
     /\ modeHandler' = [mode |-> "InstanceReady", instance |-> inst]
     /\ Select(Pending)
     /\ drawn' = drawn \cup {Pending}
     /\ lastStep' = [Step(0, FALSE) EXCEPT
                       !.pdk = [device |-> device, pdkName |-> pdkName,
                                existing |-> r.existing,
                                earlier |-> << pdkName, device.name >> \in EarlierCalls,
                                element |-> r.element]]
     /\ Counted
     /\ UNCHANGED << entities, schematic, changeLog, logPre, clipboard, threw,
                   customElementRegistry, doc, bridge >>

NextPdk ==
  \/ \E device \in PdkDevices, pdkName \in PdkNames, m \in MousePts :
        AddPdkDevice(device, pdkName, m)
  \/ InstanceReadyAbort

SpecPdk == Init /\ [][NextPdk]_vars

\* ------------------------------------------------------------------------
\* The host: SchematicDocument.requestContent, its timeout, save-file messages
\* ------------------------------------------------------------------------
MaxReq == 3          \* requestContent calls (saves and backups) in a run
MaxVer == 2          \* versions of the content the webview goes through

\* The editor's variables, which the host's handlers do not touch
edVars == << entities, schematic, changeLog, modeHandler, selected_entities,
             selected_entity, groupTransformCenter, lastData, clipboard, drawn,
             threw, lastStep, logPre, events, highlighted, pdkElementRegistry,
             customElementRegistry >>

\* A promise's resolve function: the first call settles the promise, later
\* calls have no effect. `via` and `hadReply` remember how it was settled.
resolve(d, r, value, via, replyTo) ==
  IF d.promises[r].resolved THEN d
  ELSE [d EXCEPT !.promises[r] =
          [@ EXCEPT !.resolved = TRUE, !.value = value, !.via = via,
                    !.replyTo = replyTo, !.hadReply = r \in d.arrived]]

\* SchematicDocument.requestContent (from saveAs, for a save or a backup)
RequestContentOfWebview ==
  /\ Len(doc.promises) < MaxReq
  /\ LET r == Len(doc.promises) + 1
     IN doc' = [doc EXCEPT
                  !.promises = Append(@, [resolved |-> FALSE, value |-> 0,
                                          via |-> "none", replyTo |-> 0,
                                          hadReply |-> FALSE, timer |-> "armed"]),
                  !.pendingContentResolver = r,
                  !.toWebview = Append(@, r)]
  /\ UNCHANGED << edVars, bridge >>

\* The user edits the schematic in the webview
WebviewEdits ==
  /\ doc.content < MaxVer
  /\ doc' = [doc EXCEPT !.content = @ + 1]
  /\ UNCHANGED << edVars, bridge >>

\* The webview handles a request-content message: sendSaveFile posts the
\* content as a save-file message, or posts nothing when the export throws
WebviewAnswers(exported) ==
  /\ doc.toWebview # <<>>
  /\ doc' = [doc EXCEPT
               !.toWebview = Tail(@),
               !.toHost = IF exported
                          THEN Append(@, [body |-> doc.content,
                                          replyTo |-> Head(doc.toWebview)])
                          ELSE @]
  /\ UNCHANGED << edVars, bridge >>

\* The comma key in the webview (SchEditor.handleKey): sendSaveFile posts a
\* save-file message nobody asked for
WebviewSaveKey ==
  /\ Len(doc.toHost) < MaxReq
  /\ doc' = [doc EXCEPT !.toHost = Append(@, [body |-> doc.content, replyTo |-> 0])]
  /\ UNCHANGED << edVars, bridge >>

\* SchematicDocument.handleMessage, case "save-file"
HandleSaveFile ==
  /\ doc.toHost # <<>>
  /\ LET msg == Head(doc.toHost)
         d1 == [doc EXCEPT !.toHost = Tail(@),
                           !.documentData = msg.body,
                           !.arrived = @ \cup ({msg.replyTo} \ {0})]
     IN doc' = IF d1.pendingContentResolver # 0
               THEN [resolve(d1, d1.pendingContentResolver, msg.body,
                             "save-file", msg.replyTo)
                       EXCEPT !.pendingContentResolver = 0]
               ELSE d1
  /\ UNCHANGED << edVars, bridge >>

\* The 5 second timer of request r expires; the timers expire in the order
\* in which they were set
ContentTimeout(r) ==
  /\ r \in 1..Len(doc.promises)
  /\ doc.promises[r].timer = "armed"
  /\ \A q \in 1..(r - 1) : doc.promises[q].timer = "fired"
  /\ LET d1 == [doc EXCEPT !.promises[r].timer = "fired"]
     IN doc' = IF d1.pendingContentResolver # 0
               THEN [resolve(d1, r, d1.documentData, "timeout", 0)
                       EXCEPT !.pendingContentResolver = 0]
               ELSE d1
  /\ UNCHANGED << edVars, bridge >>

NextDoc ==
  \/ RequestContentOfWebview
  \/ WebviewEdits
  \/ \E exported \in BOOLEAN : WebviewAnswers(exported)
  \/ WebviewSaveKey
  \/ HandleSaveFile
  \/ \E r \in 1..MaxReq : ContentTimeout(r)

SpecDoc == Init /\ [][NextDoc]_vars

\* The event loop runs every handler that is due: messages are delivered and
\* handled, timers expire
SpecDocLive ==
  /\ SpecDoc
  /\ WF_vars(HandleSaveFile)
  /\ WF_vars(\E exported \in BOOLEAN : WebviewAnswers(exported))
  /\ \A r \in 1..MaxReq : WF_vars(ContentTimeout(r))

\* ------------------------------------------------------------------------
\* The host: PythonBridge.sendCommand, the line reader, the child process
\* ------------------------------------------------------------------------
MaxCmd == 3          \* commands sent in a run
MaxNoise == 1        \* output lines of the child that answer no command
MaxProc == 2         \* child processes spawned in a run

\* The response the exit handler makes up: { status: "error", message:
\* "Process exited" }; the responses of the child are numbered from 1
ProcessExited == 0

\* The functions of command c: the promise's resolve, and the callback that
\* sendCommand pushes on responseQueue (a closure around resolve)
ResolveOf(c) == [fn |-> "resolve", cmd |-> c]
CallbackOf(c) == [fn |-> "callback", cmd |-> c]

\* Array.indexOf: the first index holding x, or -1
indexOf(q, x) ==
  IF \E i \in 1..Len(q) : q[i] = x
  THEN (CHOOSE i \in 1..Len(q) : q[i] = x /\ \A j \in 1..(i - 1) : q[j] # x) - 1
  ELSE 0 - 1

\* Array.splice(idx, 1), idx counted from 0
splice(q, idx) == SubSeq(q, 1, idx) \o SubSeq(q, idx + 2, Len(q))

\* Settling the promise of command c: only the first settlement counts
settle(b, c, state, value) ==
  IF b.promises[c].state # "pending" THEN b
  ELSE [b EXCEPT !.promises[c] = [@ EXCEPT !.state = state, !.value = value]]

\* The callback of command c, called with a response
callback(b, c, response) ==
  settle([b EXCEPT !.promises[c].timer = IF @ = "armed" THEN "cleared" ELSE @],
         c, "resolved", response)

\* The child process that this.process refers to is the last one spawned
LastChild == Len(bridge.children)

\* PythonBridge.sendCommand
SendCommand ==
  /\ bridge.process # 0
  /\ Len(bridge.promises) < MaxCmd
  /\ LET c == Len(bridge.promises) + 1
     IN bridge' = [bridge EXCEPT
                     !.promises = Append(@, [state |-> "pending", value |-> ProcessExited,
                                             timer |-> "armed", child |-> bridge.process]),
                     !.responseQueue = Append(@, CallbackOf(c)),
                     !.stdin = Append(@, c),
                     !.event = [kind |-> "send", child |-> bridge.process]]
  /\ UNCHANGED << edVars, doc >>

\* The child reads the next command and prints its response on one line,
\* which is JSON or is not (a NaN, text printed before it on the same line)
PythonResponds(parses) ==
  /\ LastChild > 0
  /\ bridge.children[LastChild] = "running"
  /\ bridge.stdin # <<>>
  /\ bridge' = [bridge EXCEPT
                  !.stdin = Tail(@),
                  !.stdout = Append(@, [parses |-> parses, response |-> Head(bridge.stdin)]),
                  !.event = [kind |-> "print", child |-> LastChild]]
  /\ UNCHANGED << edVars, doc >>

\* The child prints a line that answers no command and is not JSON
PythonPrintsNoise ==
  /\ LastChild > 0
  /\ bridge.children[LastChild] = "running"
  /\ bridge.noise < MaxNoise
  /\ bridge' = [bridge EXCEPT
                  !.noise = @ + 1,
                  !.stdout = Append(@, [parses |-> FALSE, response |-> ProcessExited]),
                  !.event = [kind |-> "print", child |-> LastChild]]
  /\ UNCHANGED << edVars, doc >>

\* rl.on("line"): a line that parses goes to the callback shifted off
\* responseQueue if there is one; a line that does not parse is logged
ReadLine ==
  /\ bridge.stdout # <<>>
  /\ LET line == Head(bridge.stdout)
         b1 == [bridge EXCEPT !.stdout = Tail(@),
                              !.event = [kind |-> "line", child |-> 0]]
     IN bridge' =
          IF line.parses /\ b1.responseQueue # <<>>
          THEN callback([b1 EXCEPT !.responseQueue = Tail(@)],
                        Head(b1.responseQueue).cmd, line.response)
          ELSE b1
  /\ UNCHANGED << edVars, doc >>

\* The 30 second timer of command c expires; the timers expire in the order
\* in which they were set
CommandTimeout(c) ==
  /\ c \in 1..Len(bridge.promises)
  /\ bridge.promises[c].timer = "armed"
  /\ \A q \in 1..(c - 1) : bridge.promises[q].timer # "armed"
  /\ LET idx == indexOf(bridge.responseQueue, ResolveOf(c))
         b1 == [bridge EXCEPT
                  !.promises[c].timer = "fired",
                  !.responseQueue = IF idx >= 0 THEN splice(@, idx) ELSE @,
                  !.event = [kind |-> "timeout", child |-> 0]]
     IN bridge' = settle(b1, c, "rejected", ProcessExited)
  /\ UNCHANGED << edVars, doc >>

\* process.on("exit"): every waiting callback gets the made-up error response
RECURSIVE drain(_)
drain(b) ==
  IF b.responseQueue = <<>> THEN b
  ELSE drain(callback([b EXCEPT !.responseQueue = Tail(@)],
                      Head(b.responseQueue).cmd, ProcessExited))

\* Child k exits, of itself or after stop() killed it: the "exit" handler
\* that doStart registered on k runs
ProcessExit(k) ==
  /\ k \in 1..Len(bridge.children)
  /\ bridge.children[k] \in {"running", "killed"}
  /\ bridge' = drain([bridge EXCEPT
                        !.children[k] = "exited",
                        !.process = 0,
                        !.stdin = IF k = LastChild THEN <<>> ELSE @,
                        !.event = [kind |-> "exit", child |-> k]])
  /\ UNCHANGED << edVars, doc >>

\* Child k emits "error" (it could not be killed, or a write to it failed):
\* the "error" handler that doStart registered on k runs
ProcessError(k) ==
  /\ k \in 1..Len(bridge.children)
  /\ bridge.children[k] \in {"running", "killed"}
  /\ k \notin bridge.errored
  /\ bridge' = [bridge EXCEPT
                  !.errored = @ \cup {k},
                  !.process = 0,
                  !.event = [kind |-> "error", child |-> k]]
  /\ UNCHANGED << edVars, doc >>

\* PythonBridge.stop
Stop ==
  /\ bridge.process # 0 \/ bridge.responseQueue # <<>>
  /\ bridge' = [bridge EXCEPT
                  !.children = IF bridge.process # 0
                               THEN [@ EXCEPT ![bridge.process] = "killed"] ELSE @,
                  !.stdin = IF bridge.process # 0 THEN <<>> ELSE @,
                  !.process = 0,
                  !.responseQueue = <<>>,
                  !.event = [kind |-> "stop", child |-> bridge.process]]
  /\ UNCHANGED << edVars, doc >>

\* PythonBridge.start, from doStart's spawn on: the new child gets the
\* handlers and the ping command
Start ==
  /\ bridge.process = 0
  /\ Len(bridge.children) < MaxProc
  /\ Len(bridge.promises) < MaxCmd
  /\ LET k == Len(bridge.children) + 1
         c == Len(bridge.promises) + 1
     IN bridge' = [bridge EXCEPT
                     !.children = Append(@, "running"),
                     !.process = k,
                     !.promises = Append(@, [state |-> "pending", value |-> ProcessExited,
                                             timer |-> "armed", child |-> k]),
                     !.responseQueue = Append(@, CallbackOf(c)),
                     !.stdin = <<c>>,
                     !.event = [kind |-> "start", child |-> k]]
  /\ UNCHANGED << edVars, doc >>

NextBridge ==
  \/ SendCommand
  \/ \E parses \in BOOLEAN : PythonResponds(parses)
  \/ PythonPrintsNoise
  \/ ReadLine
  \/ \E c \in 1..MaxCmd : CommandTimeout(c)
  \/ \E k \in 1..MaxProc : ProcessExit(k)
  \/ \E k \in 1..MaxProc : ProcessError(k)
  \/ Stop
  \/ Start

SpecBridge == Init /\ [][NextBridge]_vars

\* ------------------------------------------------------------------------
\* Custom symbols: the element registry and SchEditor.addCustomSymbol
\* ------------------------------------------------------------------------
\* The content of a symbol file, kept as the sequence of its top-level parts:
\* a graphics element, a port group (of the port named "a"), a style section
SvgContents == { <<>>, <<"rect">>, <<"port", "rect">>, <<"style", "rect">> }
SymbolPaths == {"x.sym.svg", "y.sym.svg"}
SymbolPortLists == { <<>>, <<"a">> }

\* CustomSymbolInfo; svgContent is optional: given says whether it is there
CustomSymbolInfos ==
  [name : { <<"M">> }, path : SymbolPaths, ports : SymbolPortLists,
   svgContent : [given : BOOLEAN, text : SvgContents]]

\* JavaScript's truth of an optional string: undefined and "" are both false
Truthy(svgContent) == svgContent.given /\ svgContent.text # <<>>

\* parseSymbolSvg: the port groups give port locations and a label each, the
\* graphics elements are kept, everything else is dropped
RECURSIVE parseSymbolSvg(_)
parseSymbolSvg(text) ==
  IF text = <<>> THEN [svgLines |-> <<>>, portLocations |-> <<>>]
  ELSE LET rest == parseSymbolSvg(Tail(text))
       IN CASE Head(text) = "port" ->
                 [svgLines |-> << "label a" >> \o rest.svgLines,
                  portLocations |-> << "a" >> \o rest.portLocations]
            [] Head(text) = "rect" ->
                 [svgLines |-> rest.svgLines \o << "rect" >>,
                  portLocations |-> rest.portLocations]
            [] OTHER -> rest

\* createGenericBoxSymbol: a box, and a stub for every port
createGenericBoxSymbol(ports) ==
  [svgLines |-> << "box" >> \o [i \in 1..Len(ports) |-> "stub"],
   portLocations |-> ports]

\* The symbol that createCustomElement builds for symbolInfo
CustomSymbol(symbolInfo) ==
  IF Truthy(symbolInfo.svgContent)
  THEN LET parsed == parseSymbolSvg(symbolInfo.svgContent.text)
       IN [svgLines |-> parsed.svgLines,
           ports |-> IF parsed.portLocations = <<>> /\ symbolInfo.ports # <<>>
                     THEN symbolInfo.ports    \* createDefaultPortLocations
                     ELSE parsed.portLocations]
  ELSE LET result == createGenericBoxSymbol(symbolInfo.ports)
       IN [svgLines |-> result.svgLines, ports |-> result.portLocations]

\* createCustomElement: the registered Element of the path when there is no
\* svgContent and there is one, or else a new Element, which is registered.
\* `built` tells the Element objects apart: the event that built it.
createCustomElement(symbolInfo) ==
  LET key == symbolInfo.path
      existing == IF key \in DOMAIN customElementRegistry
                  THEN customElementRegistry[key] ELSE Null
  IN IF ~Truthy(symbolInfo.svgContent) /\ existing # Null
     THEN [element |-> existing, registry |-> customElementRegistry]
     ELSE LET customElement ==
                [kind |-> "Nmos",
                 symbol |-> CustomSymbol(symbolInfo),
                 defaultNamePrefix |-> << toLowerCase(symbolInfo.name[1]) >>,
                 defaultOf |-> symbolInfo.name \o <<"(", ")">>,
                 customSymbolPath |-> symbolInfo.path,
                 built |-> events + 1]
          IN [element |-> customElement,
              registry |-> [k \in DOMAIN customElementRegistry \cup {key} |->
                              IF k = key THEN customElement
                              ELSE customElementRegistry[k]]]

\* SchEditor.addCustomSymbol, in any mode: createCustomElement,
\* lastInstanceData, then InstanceReady.start
AddCustomSymbol(symbolInfo, m) ==
  LET r == createCustomElement(symbolInfo)
      inst == NewPlaceable("Instance", r.element.kind,
                r.element.defaultNamePrefix \o <<NumStr(num_instances)>>,
                nearestOnGrid(m), OrientationDefault)
  IN /\ customElementRegistry' = r.registry
     /\ lastData' = [lastData EXCEPT
                       !.instance = [kind |-> r.element.kind,
                                     orientation |-> OrientationDefault]]
     /\ modeHandler' = [mode |-> "InstanceReady", instance |-> inst]
     /\ Select(Pending)
     /\ drawn' = drawn \cup {Pending}
     /\ lastStep' = [Step(0, FALSE) EXCEPT
                       !.custom = [symbolInfo |-> symbolInfo,
                                   before |-> IF symbolInfo.path \in DOMAIN customElementRegistry
                                              THEN customElementRegistry[symbolInfo.path]
                                              ELSE Null,
                                   element |-> r.element]]
     /\ Counted
     /\ UNCHANGED << entities, schematic, changeLog, logPre, clipboard, threw,
                     pdkElementRegistry, doc, bridge >>

NextCustom ==
  \/ \E symbolInfo \in CustomSymbolInfos, m \in MousePts :
        AddCustomSymbol(symbolInfo, m)
  \/ InstanceReadyAbort

SpecCustom == Init /\ [][NextCustom]_vars

\* ------------------------------------------------------------------------
\* Properties
\* ------------------------------------------------------------------------
\* The persisted content of a schematic state: its members and their fields
Content(st) == [members |-> st.members,
                fields |-> [id \in st.members |-> st.entities[id]]]

RECURSIVE UndoAll(_)
UndoAll(e) == IF e.cl.cursor = 0 THEN e ELSE UndoAll(undo(e))

RECURSIVE RedoAll(_)
RedoAll(e) == IF e.cl.cursor = Len(e.cl.log) THEN e ELSE RedoAll(redo(e))

\* The entities with an Add entry in the log
LoggedAdds ==
  { changeLog.log[i].entity :
      i \in { j \in 1..Len(changeLog.log) : changeLog.log[j].kind = "Add" } }

\* C1: with no edit in progress, every entity created by a logged edit and
\* every logged change applied, one undo() per logged change followed by as
\* many redo() leaves the schematic with the same entities and the same loc,
\* orientation, wire points and label text.
C1_UndoAllRedoAllRestores ==
  ( /\ modeHandler.mode = "Idle"
    /\ DOMAIN entities = LoggedAdds
    /\ changeLog.cursor = Len(changeLog.log) )
  => Content(RedoAll(UndoAll(Editor)).st) = Content(St)

\* The entity a change is about has, in st, the fields it had in the snapshot
\* pre; an added entity is out of the schematic again and a removed member of
\* the schematic is back in it
RECURSIVE Restored(_, _, _)
Restored(c, pre, st) ==
  CASE c.kind = "Add" -> c.entity \notin st.members
    [] c.kind = "Remove" -> c.entity \in pre.members => c.entity \in st.members
    [] c.kind = "Move" ->
         place(st.entities[c.entity]) = place(pre.fields[c.entity])
    [] c.kind = "MoveWire" ->
         st.entities[c.wire].points = pre.fields[c.wire].points
    [] c.kind = "EditText" ->
         st.entities[c.label].name = pre.fields[c.label].name
    [] c.kind = "Batch" ->
         \A i \in 1..Len(c.changes) : Restored(c.changes[i], pre, st)

\* C2: for the change before the cursor, applying the inverse undo() returns
\* gives every affected entity the loc, orientation, wire points and label
\* text (and the membership) it had immediately before that edit began.
C2_UndoRestoresPreEditFields ==
  ( modeHandler.mode = "Idle" /\ changeLog.cursor > 0 )
  => Restored(changeLog.log[changeLog.cursor], logPre[changeLog.cursor],
              undo(Editor).st)

\* Every sub-change of the batch has its `from` (side = "from") or its `to`
\* (side = "to") value in the entities ents
AllHave(batch, side, ents) ==
  \A i \in 1..Len(batch.changes) :
     LET c == batch.changes[i]
         v == IF side = "from" THEN c.from ELSE c.to
     IN CASE c.kind = "Move" -> place(ents[c.entity]) = v
          [] c.kind = "MoveWire" -> ents[c.wire].points = v
          [] OTHER -> TRUE

\* C3: a Batch undoes and redoes as one unit: the step that undoes it moves
\* the cursor by exactly one entry and leaves every sub-change reverted, the
\* step that redoes it leaves every sub-change reapplied, and the inverse
\* ChangeLog.undo hands out replays the inverted sub-changes in reversed order.
C3_BatchIsAtomic ==
  /\ [][ /\ ( /\ changeLog'.cursor < changeLog.cursor
              /\ changeLog.log[changeLog.cursor].kind = "Batch" )
            => /\ changeLog'.cursor = changeLog.cursor - 1
               /\ changeLog'.log = changeLog.log
               /\ AllHave(changeLog.log[changeLog.cursor], "from", entities')
         /\ ( /\ changeLog'.cursor > changeLog.cursor
              /\ lastStep'.sent = 0
              /\ changeLog.log[changeLog.cursor + 1].kind = "Batch" )
            => /\ changeLog'.cursor = changeLog.cursor + 1
               /\ changeLog'.log = changeLog.log
               /\ AllHave(changeLog.log[changeLog.cursor + 1], "to", entities')
       ]_vars
  /\ [](( changeLog.cursor > 0 /\ changeLog.log[changeLog.cursor].kind = "Batch" )
        => LET b == changeLog.log[changeLog.cursor]
               inv == ChangeLogUndo(changeLog).change
           IN /\ inv.kind = "Batch"
              /\ Len(inv.changes) = Len(b.changes)
              /\ \A i \in 1..Len(b.changes) :
                    inv.changes[i] = Inverse(b.changes[Len(b.changes) + 1 - i]))

\* C3 witness: a Batch of at least two sub-changes has just been undone and
\* every one of its sub-changes is reverted
C3_Witness ==
  /\ changeLog.cursor < Len(changeLog.log)
  /\ changeLog.log[changeLog.cursor + 1].kind = "Batch"
  /\ Len(changeLog.log[changeLog.cursor + 1].changes) >= 2
  /\ \E i \in 1..Len(changeLog.log[changeLog.cursor + 1].changes) :
        changeLog.log[changeLog.cursor + 1].changes[i].from
          # changeLog.log[changeLog.cursor + 1].changes[i].to
  /\ AllHave(changeLog.log[changeLog.cursor + 1], "from", entities)

\* C4: a handler that logs changes leaves the entries before the old cursor
\* as they were, drops every entry that was after it, puts its changes last
\* with the cursor right after them, and redo() then does nothing.
C4_AddTruncatesRedoTail ==
  [][ ( lastStep'.sent > 0 /\ changeLog' # changeLog )
      => /\ changeLog'.cursor = Len(changeLog'.log)
         /\ changeLog'.cursor > changeLog.cursor
         /\ SubSeq(changeLog'.log, 1, changeLog.cursor)
              = SubSeq(changeLog.log, 1, changeLog.cursor)
         /\ ChangeLogRedo(changeLog').change = Null
         /\ redo(Editor') = Editor'
    ]_vars

\* C4 witness: port 1 was placed, its Add was undone and another entity was
\* placed: the log holds only the new Add
C4_Witness ==
  /\ Len(entities) = 2
  /\ entities[1].entityKind = "SchPort"
  /\ changeLog = [log |-> << [kind |-> "Add", entity |-> 2] >>, cursor |-> 1]
  /\ members = {2}

\* C5: undo() with the cursor at the start and redo() with the cursor at the
\* end change neither the ChangeLog nor the schematic, and no handler has
\* ended in an exception.
C5_UndoRedoAtEndsAreNoOps ==
  /\ changeLog.cursor = 0 => undo(Editor) = Editor
  /\ changeLog.cursor = Len(changeLog.log) => redo(Editor) = Editor
  /\ ~threw

\* C5 witness: a non-empty history undone back to its start
C5_Witness ==
  /\ changeLog.cursor = 0
  /\ Len(changeLog.log) >= 2
  /\ lastStep = Step(0, FALSE)
  /\ members = {}

\* C6: the names of the Instances and SchPorts in the schematic are pairwise
\* distinct.
C6_NamesAreUnique ==
  \A a, b \in members :
     ( a # b /\ IsPlaceable(entities[a]) /\ IsPlaceable(entities[b]) )
     => entities[a].name # entities[b].name

\* C7: a LoadFile whose body cannot be imported ends in failer and leaves the
\* schematic, its entities and their drawings on the canvas as they were.
C7_FailedLoadLeavesEditorUntouched ==
  [][ lastStep'.failed
      => /\ schematic' = schematic
         /\ entities' = entities
         /\ drawn' \cap members = drawn \cap members ]_vars

\* C8: a handler that sends Change messages to the platform appends as many
\* changes to the ChangeLog.
C8_ChangeMessagesAreLogged ==
  [][ lastStep'.sent > 0
      => changeLog'.cursor = changeLog.cursor + lastStep'.sent ]_vars

\* C9: every Wire the schematic holds has each consecutive pair of points
\* differing in exactly one coordinate.
C9_NoDiagonalWire ==
  \A id \in members : IsWire(entities[id]) => Manhattan(entities[id].points)

\* C10: every Instance loc, SchPort loc and Wire point of the schematic has
\* both coordinates on the 10-unit grid.
C10_EverythingOnGrid ==
  \A id \in members :
     IF IsWire(entities[id])
     THEN \A i \in 1..Len(entities[id].points) : OnGrid(entities[id].points[i])
     ELSE OnGrid(entities[id].loc)

\* The modes that hold an entity being placed, and the entity they hold
ReadyModes == {"InstanceReady", "PortReady"}
PendingEntity(mh) == IF mh.mode = "InstanceReady" THEN mh.instance ELSE mh.port

C13_EscapeReturnsToIdle ==
  [][ lastStep'.escape => modeHandler'.mode = "Idle" ]_vars

\* The data of the schematic as it is now
SchData == toData([members |-> members, entities |-> entities,
                   otherSvgElements |-> schematic.otherSvgElements])

\* C14: importing the export of the schematic succeeds and yields the same
\* instances, ports, wires and other SVG fragments, field for field.
C14_ImportOfExportIsSame ==
  LET r == SvgImporterParse(SvgExporterExport(SchData).text)
  IN r.ok /\ r.data = SchData

\* C15: the orientation O of the pending instance is one of the 8 of the
\* table, four rotations of O give O, two flips of O about the same axis give
\* O, and a rotation or a flip of O is again one of the 8.
C15_OrientationGroup ==
  LET O == modeHandler.instance.orientation
  IN /\ O \in Orientations
     /\ rotate(rotate(rotate(rotate(O)))) = O
     /\ rotate(O) \in Orientations
     /\ \A dir \in Directions :
           /\ flip(flip(O, dir), dir) = O
           /\ flip(O, dir) \in Orientations

\* C15 witness: the pending instance was turned to the reflected 90 degree
\* orientation by rotating and flipping
C15_Witness ==
  /\ events >= 2
  /\ modeHandler.instance.orientation = <<0, 1, 1, 0>>
  /\ lastData.instance.orientation = <<0, 1, 1, 0>>

\* C16: for the location P of the pending instance, on the grid or off it,
\* nearestOnGrid(nearestOnGrid(P)) equals nearestOnGrid(P).
C16_SnapIsIdempotent ==
  LET P == modeHandler.instance.loc
  IN nearestOnGrid(nearestOnGrid(P)) = nearestOnGrid(P)

\* C16 witness: a location off the grid was snapped to (20, -10)
C16_Witness ==
  /\ events = 1
  /\ modeHandler.instance.loc = Pt(20, -10)

\* C17: for the wires of the schematic, recomputing the Dots gives the same set
\* of Dot locations when it is repeated and in every order of iterating the
\* wires; and a point where three wires end is a Dot location, once.
C17_DotsAreDetermined ==
  LET ws == SchWires
      dots == updateDots({}, ws)
  IN /\ updateDots(dots, ws) = dots
     /\ \A f \in Orders(Len(ws)) :
           updateDots({}, [i \in 1..Len(ws) |-> ws[f[i]]]) = dots
     /\ \A p \in DotPts :
           (\A i \in 1..Len(ws) : p \in WireEnds(ws[i])) /\ Len(ws) = 3
             => Cardinality({ d \in dots : d = p }) = 1

\* C17 witness: three wires that end at (10, 0) and nowhere else in common;
\* the one Dot is at (10, 0)
C17_Witness ==
  /\ Len(SchWires) = 3
  /\ \A i \in 1..3 : Pt(10, 0) \in WireEnds(SchWires[i])
  /\ { SchWires[i][1] : i \in 1..3 } = { Pt(0, 0), Pt(20, 0), Pt(10, 10) }
  /\ updateDots({}, SchWires) = { Pt(10, 0) }

\* C18: the last createPdkElement call returned a registered Element exactly
\* when an earlier call had the same pdk name and the same device name, and no
\* registry entry has been returned to calls of two different (pdk name,
\* device name) pairs.
C18_RegistryKeyedByPair ==
  /\ lastStep.pdk # Null => (lastStep.pdk.existing <=> lastStep.pdk.earlier)
  /\ \A k \in DOMAIN pdkElementRegistry :
        \A p, q \in pdkElementRegistry[k].users : p = q

\* C19: when the symbol type of the last createPdkElement call is not in the
\* Element catalog, an error was reported and the call's element is not one of
\* the catalog's kinds.
C19_UnresolvedKindIsAnError ==
  lastStep.pdk # Null /\ lastStep.pdk.device.symbol_type \notin Elements
    => /\ lastStep.failed
       /\ lastStep.pdk.element.kind \notin Elements

\* C20: in the symbol editor, a step that commits a drawn line leaves the line
\* tool active (the mode that starts the next line on a click), and a step
\* that takes the line tool back to Idle is the handling of an Escape key.
C20_DrawingToolStaysActive ==
  [][ /\ ( /\ modeHandler.mode = "DrawLine"
           /\ schematic'.otherSvgElements > schematic.otherSvgElements )
         => modeHandler'.mode = "LineReady"
      /\ ( /\ modeHandler.mode \in {"LineReady", "DrawLine"}
           /\ modeHandler'.mode = "Idle" )
         => lastStep'.escape ]_vars

\* C21: a step that aborts a mode on Escape leaves the ChangeLog as it was,
\* and when the mode was MoveInstance or EditLabel every entity the mode was
\* entered for has again the loc, orientation, wire points and label text it
\* had at mode entry.
C21_AbortRestoresModeEntry ==
  [][ lastStep'.escape
        => /\ changeLog' = changeLog
           /\ modeHandler.mode \in {"MoveInstance", "EditLabel"}
                => \A id \in modeHandler.pre.ids :
                      entities'[id] = modeHandler.pre.fields[id] ]_vars

\* C22: a step of undo() or redo() (the cursor moves, the log stays) leaves
\* every entity that existed before the current schematic was loaded out of
\* the schematic and with the fields it had.
C22_UndoStaysInLoadedSchematic ==
  [][ ( /\ changeLog'.log = changeLog.log
        /\ changeLog'.cursor # changeLog.cursor )
        => \A id \in 1..schematic.born :
              /\ id \notin schematic'.members
              /\ entities'[id] = entities[id] ]_vars

\* The Move changes of a log entry, a Batch's sub-changes included
MovesOf(c) ==
  IF c.kind = "Move" THEN {c}
  ELSE IF c.kind = "Batch"
  THEN { c.changes[i] : i \in { j \in 1..Len(c.changes) : c.changes[j].kind = "Move" } }
  ELSE {}

\* C23: in the step in which MoveInstance.commitMove logs its entry, every
\* Move change of the entry has as `to` the loc and the orientation the entity
\* has at that moment.
C23_MoveToIsCommittedPlace ==
  [][ ( /\ modeHandler.mode = "MoveInstance"
        /\ modeHandler'.mode = "Idle"
        /\ changeLog' # changeLog )
        => \A c \in MovesOf(changeLog'.log[changeLog'.cursor]) :
              c.to = place(entities'[c.entity]) ]_vars

\* C24: a step that logs and takes two or more entities out of the schematic
\* (delete, cut) or puts two or more into it (paste) is reverted by one undo():
\* the schematic then has the entities it had before the step.
C24_OneUndoRevertsOneAction ==
  [][ ( /\ changeLog'.log # changeLog.log
        /\ Cardinality((schematic'.members \ schematic.members)
                         \cup (schematic.members \ schematic'.members)) >= 2 )
        => undo([cl |-> changeLog',
                 st |-> [entities |-> entities', members |-> schematic'.members,
                         drawn |-> drawn', threw |-> threw']]).st.members
             = schematic.members ]_vars

\* C25: every selected entity is a member of the schematic, the name label of
\* a member, or the pending entity of the active placement mode.
C25_SelectionIsInSchematic ==
  \A id \in selected_entities :
     \/ id \in members
     \/ id < 0 /\ (0 - id) \in members
     \/ id = Pending /\ modeHandler.mode \in ReadyModes

\* C26: an entity of the schematic is drawn highlighted exactly when it is in
\* uiState.selected_entities.
C26_HighlightedIffSelected ==
  \A id \in members : id \in highlighted <=> id \in selected_entities

\* C27: when the mouse is released over an entity that still has the loc,
\* orientation and wire points it had when the mouse was pressed on it, the
\* step adds nothing to the ChangeLog and sends no Change message.
C27_ClickLogsNothing ==
  [][ ( /\ modeHandler.mode = "MoveInstance"
        /\ modeHandler'.mode = "Idle"
        /\ ~lastStep'.escape
        /\ \A id \in modeHandler.pre.ids : entities[id] = modeHandler.pre.fields[id] )
        => /\ changeLog' = changeLog
           /\ lastStep'.sent = 0 ]_vars

\* C28: every requestContent promise is resolved at last: whenever request r
\* has been issued, a state follows in which its promise is resolved.
C28_EveryRequestResolves ==
  \A r \in 1..MaxReq :
     (Len(doc.promises) >= r) ~> (Len(doc.promises) >= r /\ doc.promises[r].resolved)

\* C29: a resolved requestContent promise r (whose value saveAs writes) got
\* the body of the save-file message sent in reply to request r, or got the
\* cached documentData on its timeout while no reply to r had arrived.
C29_SaveWritesItsOwnReply ==
  \A r \in 1..Len(doc.promises) :
     doc.promises[r].resolved
       => \/ doc.promises[r].via = "save-file" /\ doc.promises[r].replyTo = r
          \/ doc.promises[r].via = "timeout" /\ ~doc.promises[r].hadReply

\* C30: a command promise that is resolved with a response of the child
\* process holds the response the child printed for that very command (the
\* c-th command holds the c-th response).
C30_CommandGetsItsOwnResponse ==
  \A c \in 1..Len(bridge.promises) :
     bridge.promises[c].state = "resolved"
       => bridge.promises[c].value \in {c, ProcessExited}

\* C31: an exit or error event of a child that stop() has replaced leaves
\* the new child alone: this.process still refers to the new child, and no
\* command pending on the new child is completed by the event.
C31_LateEventsOfStoppedChild ==
  [][ ( /\ bridge'.event.kind \in {"exit", "error"}
        /\ bridge' # bridge
        /\ bridge.process # 0
        /\ bridge'.event.child # bridge.process
        /\ bridge.children[bridge'.event.child] = "killed" )
        => /\ bridge'.process = bridge.process
           /\ \A c \in 1..Len(bridge.promises) :
                 ( bridge.promises[c].child = bridge.process
                   /\ bridge.promises[c].state = "pending" )
                   => bridge'.promises[c].state = "pending" ]_vars

\* C32: when a child exits, every command pending at that moment is resolved
\* with the Process exited error, responseQueue is empty and process is null.
C32_ExitCompletesPending ==
  [][ ( bridge'.event.kind = "exit" /\ bridge' # bridge )
        => /\ bridge'.process = 0
           /\ bridge'.responseQueue = <<>>
           /\ \A c \in 1..Len(bridge.promises) :
                 bridge.promises[c].state = "pending"
                   => /\ bridge'.promises[c].state = "resolved"
                      /\ bridge'.promises[c].value = ProcessExited ]_vars

\* C33: after a createCustomElement call with svgContent, the returned
\* Element was built by this call from that content and is the registry's
\* entry of the symbol's path; after a call without svgContent for a path
\* that had an entry, the returned Element is that entry.
C33_CustomElementRegistry ==
  lastStep.custom # Null =>
    LET c == lastStep.custom
    IN /\ c.symbolInfo.svgContent.given
            => /\ c.element.built = events
               /\ c.element.symbol.svgLines
                    = parseSymbolSvg(c.symbolInfo.svgContent.text).svgLines
               /\ customElementRegistry[c.symbolInfo.path] = c.element
       /\ ( ~c.symbolInfo.svgContent.given /\ c.before # Null )
            => c.element = c.before

====
